---- MODULE Spec2Model ----
(***************************************************************************)
(* The concurrent multi-station fetch pipeline of cimis-cli:               *)
(* cmdFetchStreaming (worker pool, job and result channels, collector)     *)
(* and fetchStationStreaming (idempotent skip, retry loop with backoff,    *)
(* chunk write and chunk-marker save), cmd/cimis/verify.go.                *)
(* The station resolver (parseStationList, sortStations) is modelled on    *)
(* strings, both inside the command and, under ParseSpec, on its own.      *)
(*                                                                         *)
(* The HTTP service and the storage collaborators (metadata.Store,         *)
(* storage.ChunkWriter) are the environment: every call to them returns    *)
(* one of the outcomes their signatures allow.                             *)
(***************************************************************************)
EXTENDS Integers, Sequences, FiniteSets, TLC

(* ---- bounds ---- *)
MaxStations == 2      \* longest resolved station list
MaxWorkers == 2       \* largest value of the -concurrency flag
MaxRetries == 1       \* largest value of the -retries flag
MaxRecords == 1       \* most records one response decodes to
TicksPerSecond == 2   \* resolution of the clock that feeds the jitter
MaxInputLen == 3      \* longest -stations value given to the command
MaxParseLen == 5      \* longest string given to parseStationList alone
MaxSortLen == 4       \* longest slice given to sortStations alone
MaxErrLen == 3        \* longest generated error text given to the classifier
MaxConvertLen == 2    \* longest record list given to a converter alone
MaxBodyRecords == 4   \* most records of one provider in a response body
MaxBodyBytes == 2     \* largest size of a response body
MaxBatchLen == 2      \* longest free list of stations given to FetchMultipleStations
MaxRecorders == 2     \* goroutines that record into the PerformanceMonitor
MaxCalls == 10        \* calls made on one Profiler

(* ---- program constants ---- *)
Uint16Mod == 65536
HTTPStatusOK == 200
ByteMod == 256
EpochYear == 1985
DefaultPool == 4
MinYear == 1985
MaxYear == 2100

StationIDs == {2, 5}
NonOKStatuses == {400}
Workers == 1..MaxWorkers

(* The order sortStations leaves a list in. *)
IsSorted(s) == \A i \in 1..(Len(s) - 1) : s[i] <= s[i + 1]

(* ---- the -stations flag ---- *)
(* A string is a sequence of one-character strings.                        *)
Digits == << "0", "1", "2", "3", "4", "5", "6", "7", "8", "9" >>
IsDigit(c) == \E d \in 1..Len(Digits) : Digits[d] = c
DigitVal(c) == (CHOOSE d \in 1..Len(Digits) : Digits[d] = c) - 1

(* strings.TrimSpace *)
RECURSIVE TrimLeft(_)
TrimLeft(s) == IF s # << >> /\ Head(s) = " " THEN TrimLeft(Tail(s)) ELSE s

RECURSIVE TrimRight(_)
TrimRight(s) ==
  IF s # << >> /\ s[Len(s)] = " " THEN TrimRight(SubSeq(s, 1, Len(s) - 1)) ELSE s

TrimSpace(s) == TrimRight(TrimLeft(s))

(* mutation of Contains: no part is taken for a range *)
ContainsNever(s, c) == \E i \in {} : s[i] = c

(* strings.Contains(s, c) *)
Contains(s, c) == \E i \in 1..Len(s) : s[i] = c

(* strings.Split(s, c): one more part than there are separators *)
RECURSIVE SplitAcc(_, _, _, _)
SplitAcc(s, c, cur, acc) ==
  IF s = << >> THEN Append(acc, cur)
  ELSE IF Head(s) = c THEN SplitAcc(Tail(s), c, << >>, Append(acc, cur))
  ELSE SplitAcc(Tail(s), c, Append(cur, Head(s)), acc)

Split(s, c) == SplitAcc(s, c, << >>, << >>)

(* strconv.Atoi: an optional sign and at least one decimal digit; the      *)
(* inputs here are too short to leave the range of int.                    *)
RECURSIVE DecimalValue(_, _)
DecimalValue(s, acc) ==
  IF s = << >> THEN acc ELSE DecimalValue(Tail(s), 10 * acc + DigitVal(Head(s)))

Atoi(s) ==
  LET signed == s # << >> /\ Head(s) \in {"+", "-"}
      body == IF signed THEN Tail(s) ELSE s
      digitsOnly == body # << >> /\ \A i \in 1..Len(body) : IsDigit(body[i])
  IN IF ~digitsOnly THEN [ok |-> FALSE, val |-> 0]
     ELSE [ok |-> TRUE,
           val |-> IF signed /\ Head(s) = "-" THEN 0 - DecimalValue(body, 0)
                   ELSE DecimalValue(body, 0)]

NoParseError == "none"
ParseErrors == {"invalid range format", "invalid range start",
                "invalid range end", "invalid station ID"}

(* mutation of RangeSeq: the upper bound is excluded *)
RangeSeqExclusive(start, end) == [i \in 1..(end - start) |-> start + i - 1]

(* for i := start; i <= end; i++ { stations = append(stations, i) } *)
RangeSeq(start, end) == [i \in 1..(end - start + 1) |-> start + i - 1]

(* mutation of ErrList: the entries appended so far are returned *)
ErrListPartial(stations) == stations

(* return nil, fmt.Errorf(...) *)
ErrList(stations) == << >>

(* the body of the loop over the comma-separated parts *)
ParsePart(raw) ==
  LET part == TrimSpace(raw) IN
    IF Contains(part, "-")
      THEN LET rangeParts == Split(part, "-") IN
             IF Len(rangeParts) # 2
               THEN [err |-> "invalid range format", stations |-> << >>]
               ELSE LET start == Atoi(TrimSpace(rangeParts[1]))
                        end == Atoi(TrimSpace(rangeParts[2]))
                    IN IF ~start.ok
                         THEN [err |-> "invalid range start", stations |-> << >>]
                       ELSE IF ~end.ok
                         THEN [err |-> "invalid range end", stations |-> << >>]
                       ELSE [err |-> NoParseError,
                             stations |-> RangeSeq(start.val, end.val)]
      ELSE LET sid == Atoi(part) IN
             IF ~sid.ok THEN [err |-> "invalid station ID", stations |-> << >>]
             ELSE [err |-> NoParseError, stations |-> << sid.val >>]

RECURSIVE ParseParts(_, _)
ParseParts(parts, stations) ==
  IF parts = << >> THEN [err |-> NoParseError, stations |-> stations]
  ELSE LET p == ParsePart(Head(parts)) IN
         IF p.err # NoParseError
           THEN [err |-> p.err, stations |-> ErrList(stations)]
           ELSE ParseParts(Tail(parts), stations \o p.stations)

parseStationList(in) == ParseParts(Split(in, ","), << >>)

(* mutation of Swap: only stations[i] is assigned *)
SwapLossy(s, i, j) == [s EXCEPT ![i] = s[j]]

(* stations[i], stations[j] = stations[j], stations[i] *)
Swap(s, i, j) == [s EXCEPT ![i] = s[j], ![j] = s[i]]

(* for j := i + 1; j < len(stations); j++ { if stations[j] < stations[i] *)
RECURSIVE SortInner(_, _, _)
SortInner(s, i, j) ==
  IF j > Len(s) THEN s
  ELSE SortInner(IF s[j] < s[i] THEN Swap(s, i, j) ELSE s, i, j + 1)

(* for i := 0; i < len(stations)-1; i++ *)
RECURSIVE SortOuter(_, _)
SortOuter(s, i) ==
  IF i > Len(s) - 1 THEN s ELSE SortOuter(SortInner(s, i, i + 1), i + 1)

(* mutation of sortStations: the list is left in input order *)
InputOrder(s) == s

sortStations(s) == SortOuter(s, 1)

(* mutation of NoStations: the empty list is not rejected *)
NoStationsUnchecked(list) == FALSE

(* if len(stationList) == 0 { log.Fatal("No stations specified") } *)
NoStations(list) == Len(list) = 0

(* All strings over an alphabet, up to a length. *)
StringsUpTo(alphabet, n) == UNION { [1..k -> alphabet] : k \in 0..n }

(* The values of -stations the command is run with: every short string    *)
(* that is rejected, and every one that names at most MaxStations stations  *)
(* of StationIDs, in any order.                                             *)
StationInputs ==
  { in \in StringsUpTo({"2", "5", ",", "-"}, MaxInputLen) :
      LET r == parseStationList(in) IN
        \/ r.err # NoParseError
        \/ r.stations = << >>
        \/ /\ Len(r.stations) <= MaxStations
           /\ \A i \in 1..Len(r.stations) : r.stations[i] \in StationIDs }

(* Values of -stations that name a station above 65535. *)
WideInputs ==
  { << "6", "5", "5", "3", "8" >>,
    << "2", ",", "6", "5", "5", "3", "8" >> }

(* The strings parseStationList is applied to on its own. *)
ParseAlphabet == {"1", "3", "-", ",", " ", "a"}

ExampleInputs ==
  { << "2", ",", "5", "-", "7", ",", "1", "0" >>,
    << "1", "-", "2", "-", "3" >>,
    << "a", "b", "c" >>,
    << "1", "-", "a", "b", "c" >>,
    << "a", "b", "c", "-", "5" >>,
    << "5", "-", "1" >>,
    << "+", "5", ",", "-", "5" >> }

ParseInputs == StringsUpTo(ParseAlphabet, MaxParseLen) \cup ExampleInputs

(* ---- errors ---- *)
NoError == [kind |-> "none", status |-> 0]
TransportError == [kind |-> "transport", status |-> 0]
StatusError(s) == [kind |-> "status", status |-> s]
DecodeError == [kind |-> "decode", status |-> 0]
WriteError == [kind |-> "write", status |-> 0]
SaveError == [kind |-> "save", status |-> 0]

(* ---- the remote service: what one HTTP exchange can look like ---- *)
Responses ==
  { [transportOK |-> FALSE, status |-> 0, wellFormed |-> FALSE, n |-> 0] }
  \cup { [transportOK |-> TRUE, status |-> s, wellFormed |-> FALSE, n |-> 0] :
           s \in NonOKStatuses }
  \cup { [transportOK |-> TRUE, status |-> HTTPStatusOK, wellFormed |-> FALSE, n |-> 0] }
  \cup { [transportOK |-> TRUE, status |-> HTTPStatusOK, wellFormed |-> TRUE, n |-> k] :
           k \in 0..MaxRecords }

(* OptimizedClient.FetchDailyDataStreaming: transport error, then the      *)
(* status check, then the streaming decode; n is len(records).             *)
FetchDailyDataStreaming(resp) ==
  IF ~resp.transportOK THEN [n |-> 0, err |-> TransportError]
  ELSE IF resp.status # HTTPStatusOK THEN [n |-> 0, err |-> StatusError(resp.status)]
  ELSE IF ~resp.wellFormed THEN [n |-> 0, err |-> DecodeError]
  ELSE [n |-> resp.n, err |-> NoError]

(* job{stationID: uint16(sid)} *)
ToUint16(sid) == sid % Uint16Mod

(* for attempt := 0; attempt <= maxRetries; attempt++ *)
LoopCond(att, retries) == att <= retries

(* backoff := time.Duration(1<<uint(attempt)) * time.Second *)
RECURSIVE Pow2(_)
Pow2(n) == IF n <= 0 THEN 1 ELSE 2 * Pow2(n - 1)

Backoff(att) == Pow2(att) * TicksPerSecond

(* mutation of Jitters: the jitter ranges over the whole backoff *)
JittersFull(att) == 0..(Backoff(att) - 1)

(* jitter := now % int64(backoff/2), for every value the clock can have *)
Jitters(att) == 0..((Backoff(att) \div 2) - 1)

(* if !dryRun && len(records) > 0 *)
NeedsWrite(dry, n) == ~dry /\ n > 0

(* mutation of ShouldSkip: the existence check is not acted on *)
NeverSkip(exists) == FALSE

(* if exists { ...; return m } *)
ShouldSkip(exists) == exists

(* mutation of AssignErr: the first error is kept *)
KeepFirstErr(old, new) == IF old # NoError THEN old ELSE new

(* records, fetchMetrics, err = ...: err is assigned on every attempt *)
AssignErr(old, new) == new

(* mutation of Continue: a 4xx status other than 429 ends the loop *)
ContinueUnlessTerminal(att, retries, e) ==
  /\ LoopCond(att + 1, retries)
  /\ ~(e.kind = "status" /\ e.status >= 400 /\ e.status < 500 /\ e.status # 429)

(* a failed attempt falls through to attempt++ and the loop test, whatever *)
(* the error is: if attempt < maxRetries { continue }                      *)
Continue(att, retries, e) == LoopCond(att + 1, retries)

(* mutation of WriteFailed: the write error is not checked *)
WriteFailedIgnored(ok) == FALSE

(* if err != nil, after WriteDailyChunk *)
WriteFailed(ok) == ~ok

(* mutation of SaveFailed: the save error is not checked *)
SaveFailedIgnored(ok) == FALSE

(* if err := store.SaveChunk(...); err != nil *)
SaveFailed(ok) == ~ok

(* for j := range jobs: the received job leaves the channel *)
Dequeue(ch) == Tail(ch)

(* mutation of AfterSend: the worker stops after a failed station *)
StopOnFailure(res) == IF res.success THEN "recv" ELSE "exited"

(* after results <- m the worker goes back to the range over jobs *)
AfterSend(res) == "recv"

(* mutation of Close: the channel is never closed *)
CloseForgotten(closed) == closed

(* close(jobs) *)
Close(closed) == TRUE

(* mutation of ChanCap: one slot less than there are stations *)
ChanCapShort(n) == n - 1

(* make(chan job, len(stationList)), make(chan stationFetchResult, len(stationList)) *)
ChanCap(n) == n

(* mutation of AddRecords: the records of failed stations are added too *)
AddRecordsAlways(total, m) == total + m.recordCount

(* if m.success { ...; totalRecords += m.recordCount } *)
AddRecords(total, m) == IF m.success THEN total + m.recordCount ELSE total

(* mutation of CollectBound: the collector stops one result short *)
CollectBoundShort(n) == n - 1

(* for i := 0; i < len(stationList); i++ { m := <-results ... } *)
CollectBound(n) == n

VARIABLES
  input,         \* -stations
  perr,          \* the error parseStationList returned
  stationList,   \* the sorted resolved list
  concurrency,   \* -concurrency
  maxRetries,    \* -retries
  dryRun,        \* -dry-run
  mpc,           \* position of cmdFetchStreaming
  mi,            \* its loop counter (w, the range index, i)
  jobs,          \* the jobs channel
  jobsClosed,    \* close(jobs) has happened
  results,       \* the results channel
  wpc,           \* position of each worker goroutine
  wjob,          \* the job a worker holds
  attempt,       \* fetchStationStreaming: attempt
  err,           \* fetchStationStreaming: err
  nrec,          \* fetchStationStreaming: len(records)
  wdelay,        \* the duration of the last time.Sleep
  wres,          \* fetchStationStreaming: m, once returned
  markers,       \* metadata store: station IDs with a saved chunk marker
  files,         \* chunk store: successful WriteDailyChunk calls per station
  allMetrics, successCount, failCount, totalRecords,
  log,           \* history of each job: the calls made for it and its result
  arg,           \* the argument of a function applied on its own
  ret,           \* what that function returned
  batch,         \* the frame of a FetchMultipleStations call and its goroutines
  pm,            \* a PerformanceMonitor and the goroutines that use it
  profiler       \* a Profiler and what its callers got

vars == << input, perr, stationList, concurrency, maxRetries, dryRun, mpc, mi, jobs,
           jobsClosed, results, wpc, wjob, attempt, err, nrec, wdelay, wres,
           markers, files, allMetrics, successCount, failCount, totalRecords,
           log, arg, ret, batch, pm, profiler >>

flags == << input, perr, stationList, concurrency, maxRetries, dryRun, arg, ret,
           batch, pm, profiler >>
mainVars == << mpc, mi >>
collectVars == << allMetrics, successCount, failCount, totalRecords >>
storeVars == << markers, files >>

NumJobs == Len(stationList)
JobIds == 1..NumJobs
ChunkKeys == { ToUint16(s) : s \in StationIDs }

NoJob == [idx |-> 0, stationID |-> 0]
NoResult == [idx |-> 0, stationID |-> 0, success |-> FALSE, recordCount |-> 0,
             err |-> NoError]

NewLog == [taken |-> 0, exists |-> "unasked", fetchCalls |-> 0, fetchOks |-> 0,
           lastFetch |-> NoError, lastN |-> 0, writeCalls |-> 0, writeOks |-> 0,
           saveCalls |-> 0, saveOks |-> 0, returned |-> FALSE, ret |-> NoResult,
           sent |-> 0, sleeps |-> 0]

(* ---- construction ---- *)
(* No function is being applied on its own. *)
NoCall == [fn |-> "none"]

(* The flags and the pipeline as they are while a function is applied on   *)
(* its own: nothing of the command has run.                                *)
Standalone ==
  /\ input = << >>
  /\ perr = NoParseError
  /\ stationList = << >>
  /\ concurrency = 0
  /\ maxRetries = 0
  /\ dryRun = FALSE
  /\ markers = {}

(* A function applied on its own changes arg and ret only. *)
pipelineVars ==
  << input, perr, stationList, concurrency, maxRetries, dryRun, mi, jobs,
     jobsClosed, results, wpc, wjob, attempt, err, nrec, wdelay, wres,
     markers, files, allMetrics, successCount, failCount, totalRecords, log >>

(* Nothing dispatched yet: no channel, no goroutine, no result. *)
Idle ==
  /\ mi = 0
  /\ jobs = << >>
  /\ jobsClosed = FALSE
  /\ results = << >>
  /\ wpc = [w \in Workers |-> "unborn"]
  /\ wjob = [w \in Workers |-> NoJob]
  /\ attempt = [w \in Workers |-> 0]
  /\ err = [w \in Workers |-> NoError]
  /\ nrec = [w \in Workers |-> 0]
  /\ wdelay = [w \in Workers |-> 0]
  /\ wres = [w \in Workers |-> NoResult]
  /\ files = [k \in ChunkKeys |-> 0]
  /\ allMetrics = << >>
  /\ successCount = 0
  /\ failCount = 0
  /\ totalRecords = 0
  /\ log = << >>

(* The command is entered with its flags parsed; the metadata store may    *)
(* already hold chunk markers of the stations asked for.                   *)
InitWith(inputs, concs, retrs) ==
  /\ input \in inputs
  /\ perr = NoParseError
  /\ stationList = << >>
  /\ concurrency \in concs
  /\ maxRetries \in retrs
  /\ dryRun \in BOOLEAN
  /\ mpc = "parse"
  /\ Idle
  /\ arg = NoCall
  /\ ret = NoCall
  /\ batch = NoCall
  /\ pm = NoCall
  /\ profiler = NoCall
  /\ LET asked == parseStationList(input).stations IN
       markers \in SUBSET { ToUint16(asked[i]) : i \in 1..Len(asked) }

Init == InitWith(StationInputs \cup WideInputs, (-1)..MaxWorkers, (-1)..MaxRetries)

(* ---- parseStationList on its own ---- *)
ParseInit ==
  /\ input \in ParseInputs
  /\ perr = NoParseError
  /\ stationList = << >>
  /\ concurrency = 0
  /\ maxRetries = 0
  /\ dryRun = FALSE
  /\ mpc = "call"
  /\ Idle
  /\ arg = NoCall
  /\ ret = NoCall
  /\ batch = NoCall
  /\ pm = NoCall
  /\ profiler = NoCall
  /\ markers = {}

(* stationList, err := parseStationList(input) *)
CallParseStationList ==
  /\ mpc = "call"
  /\ LET r == parseStationList(input) IN
       /\ stationList' = r.stations
       /\ perr' = r.err
  /\ mpc' = "returned"
  /\ UNCHANGED << input, concurrency, maxRetries, dryRun, mi, jobs, jobsClosed,
                  results, wpc, wjob, attempt, err, nrec, wdelay, wres,
                  storeVars, collectVars, log, arg, ret, batch, pm, profiler >>

ParseNext == CallParseStationList

ParseSpec == ParseInit /\ [][ParseNext]_vars


(* ---- sortStations on its own ---- *)
SortValues == {-1, 2, 5}
SortInputs == UNION { [1..n -> SortValues] : n \in 0..MaxSortLen }

SortInit ==
  /\ Standalone
  /\ Idle
  /\ mpc = "call"
  /\ \E s \in SortInputs : arg = [fn |-> "sortStations", stations |-> s]
  /\ ret = NoCall
  /\ batch = NoCall
  /\ pm = NoCall
  /\ profiler = NoCall

(* sortStations(stations): the slice is sorted in place *)
CallSortStations ==
  /\ mpc = "call"
  /\ arg.fn = "sortStations"
  /\ ret' = [fn |-> "sortStations", stations |-> sortStations(arg.stations)]
  /\ mpc' = "returned"
  /\ UNCHANGED << pipelineVars, arg, batch, pm, profiler >>

SortNext == CallSortStations

SortSpec == SortInit /\ [][SortNext]_vars

(* ---- ClassifyRetryableError, reporting package ---- *)
NilError == [isNil |-> TRUE, text |-> << >>]
NewError(text) == [isNil |-> FALSE, text |-> text]

(* strings.Contains(s, substr) *)
HasPrefix(s, prefix) ==
  Len(prefix) <= Len(s) /\ \A i \in 1..Len(prefix) : s[i] = prefix[i]

RECURSIVE ContainsStr(_, _)
ContainsStr(s, substr) ==
  \/ HasPrefix(s, substr)
  \/ (s # << >> /\ ContainsStr(Tail(s), substr))

(* for _, substr := range substrs { if strings.Contains(s, substr) ... } *)
RECURSIVE containsAny(_, _)
containsAny(s, substrs) ==
  IF substrs = << >> THEN FALSE
  ELSE IF ContainsStr(s, Head(substrs)) THEN TRUE
  ELSE containsAny(s, Tail(substrs))

RetryablePhrases ==
  << << "t", "i", "m", "e", "o", "u", "t" >>,
     << "c", "o", "n", "n", "e", "c", "t", "i", "o", "n", " ", "r", "e", "f", "u", "s", "e", "d" >>,
     << "c", "o", "n", "n", "e", "c", "t", "i", "o", "n", " ", "r", "e", "s", "e", "t" >>,
     << "E", "O", "F" >>,
     << "b", "r", "o", "k", "e", "n", " ", "p", "i", "p", "e" >>,
     << "n", "o", " ", "s", "u", "c", "h", " ", "h", "o", "s", "t" >> >>

(* mutation of IsTerminalStatus: 429 is treated like every other 4xx *)
IsTerminalStatusAll4xx(statusCode) == statusCode >= 400 /\ statusCode < 500

(* statusCode >= 400 && statusCode < 500 && statusCode != 429 *)
IsTerminalStatus(statusCode) ==
  statusCode >= 400 /\ statusCode < 500 /\ statusCode # 429

(* statusCode == 429 || statusCode >= 500 *)
IsRetryableStatus(statusCode) == statusCode = 429 \/ statusCode >= 500

RetryableError(e, statusCode, retry) ==
  [fn |-> "classify", isNil |-> FALSE, Err |-> e, StatusCode |-> statusCode,
   ShouldRetry |-> retry]

ClassifyRetryableError(e, statusCode) ==
  IF e.isNil THEN [fn |-> "classify", isNil |-> TRUE]
  ELSE IF IsTerminalStatus(statusCode) THEN RetryableError(e, statusCode, FALSE)
  ELSE IF IsRetryableStatus(statusCode) THEN RetryableError(e, statusCode, TRUE)
  ELSE IF containsAny(e.text, RetryablePhrases) THEN RetryableError(e, statusCode, TRUE)
  ELSE RetryableError(e, statusCode, FALSE)

TestedMessages ==
  { << "b", "a", "d", " ", "r", "e", "q", "u", "e", "s", "t" >>,
    << "n", "o", "t", " ", "f", "o", "u", "n", "d" >>,
    << "r", "a", "t", "e", " ", "l", "i", "m", "i", "t", "e", "d" >>,
    << "s", "e", "r", "v", "e", "r", " ", "e", "r", "r", "o", "r" >>,
    << "u", "n", "a", "v", "a", "i", "l", "a", "b", "l", "e" >>,
    << "c", "o", "n", "n", "e", "c", "t", "i", "o", "n", " ", "t", "i", "m", "e", "o", "u", "t" >>,
    << "c", "o", "n", "n", "e", "c", "t", "i", "o", "n", " ", "r", "e", "f", "u", "s", "e", "d" >>,
    << "c", "o", "n", "n", "e", "c", "t", "i", "o", "n", " ", "r", "e", "s", "e", "t", " ", "b", "y", " ", "p", "e", "e", "r" >>,
    << "u", "n", "e", "x", "p", "e", "c", "t", "e", "d", " ", "E", "O", "F" >>,
    << "b", "r", "o", "k", "e", "n", " ", "p", "i", "p", "e" >>,
    << "d", "i", "a", "l", " ", "t", "c", "p", ":", " ", "n", "o", " ", "s", "u", "c", "h", " ", "h", "o", "s", "t" >>,
    << "s", "o", "m", "e", " ", "o", "t", "h", "e", "r", " ", "e", "r", "r", "o", "r" >> }

ErrorTexts == StringsUpTo({"E", "O", "F", "x"}, MaxErrLen) \cup TestedMessages

StatusCodes == {-1, 0, 200, 399, 400, 404, 428, 429, 430, 499, 500, 503}

ClassifyInit ==
  /\ Standalone
  /\ Idle
  /\ mpc = "call"
  /\ \E e \in {NilError} \cup { NewError(t) : t \in ErrorTexts } :
       \E c \in StatusCodes : arg = [fn |-> "classify", err |-> e, statusCode |-> c]
  /\ ret = NoCall
  /\ batch = NoCall
  /\ pm = NoCall
  /\ profiler = NoCall

CallClassify ==
  /\ mpc = "call"
  /\ arg.fn = "classify"
  /\ ret' = ClassifyRetryableError(arg.err, arg.statusCode)
  /\ mpc' = "returned"
  /\ UNCHANGED << pipelineVars, arg, batch, pm, profiler >>

ClassifyNext == CallClassify

ClassifySpec == ClassifyInit /\ [][ClassifyNext]_vars

(* ---- dates, api package ---- *)

(* The byte of a character; s[i]-'0' is computed on bytes. *)
CharCode(c) ==
  IF IsDigit(c) THEN 48 + DigitVal(c)
  ELSE CASE c = " " -> 32 [] c = "-" -> 45 [] c = "/" -> 47 [] c = ":" -> 58
         [] c = "x" -> 120

(* int(s[i]-'0') *)
ByteDigit(c) == (CharCode(c) - 48) % ByteMod

NoDate == [ok |-> FALSE, year |-> 0, month |-> 0, day |-> 0]

parseDateYYYYMMDD(s) ==
  IF Len(s) # 10 THEN NoDate
  ELSE IF s[5] # "-" \/ s[8] # "-" THEN NoDate
  ELSE LET year == ByteDigit(s[1]) * 1000 + ByteDigit(s[2]) * 100
                     + ByteDigit(s[3]) * 10 + ByteDigit(s[4])
           month == ByteDigit(s[6]) * 10 + ByteDigit(s[7])
           day == ByteDigit(s[9]) * 10 + ByteDigit(s[10])
       IN IF year < MinYear \/ year > MaxYear \/ month < 1 \/ month > 12
             \/ day < 1 \/ day > 31
            THEN NoDate
            ELSE [ok |-> TRUE, year |-> year, month |-> month, day |-> day]

(* The calendar of package time. *)
DaysIn(month, year) ==
  LET isLeap == year % 4 = 0 /\ (year % 100 # 0 \/ year % 400 = 0) IN
    IF month = 2 THEN (IF isLeap THEN 29 ELSE 28)
    ELSE IF month \in {4, 6, 9, 11} THEN 30 ELSE 31

RECURSIVE DaysBeforeMonth(_, _)
DaysBeforeMonth(month, year) ==
  IF month <= 1 THEN 0
  ELSE DaysBeforeMonth(month - 1, year) + DaysIn(month - 1, year)

(* time.Date(year, month, day, 0, 0, 0, 0, time.UTC): a day past the end of *)
(* the month runs into the next one; the value is the day's number.         *)
DateOf(year, month, day) ==
  LET daysBeforeYear == 365 * (year - 1) + ((year - 1) \div 4)
                          - ((year - 1) \div 100) + ((year - 1) \div 400)
  IN daysBeforeYear + DaysBeforeMonth(month, year) + day - 1

(* time.Parse("2006-01-02", s): four digits, two digits, two digits, a      *)
(* month of the year and a day of that month.                               *)
TimeParse(s) ==
  IF Len(s) # 10 THEN NoDate
  ELSE IF s[5] # "-" \/ s[8] # "-" THEN NoDate
  ELSE IF \E i \in {1, 2, 3, 4, 6, 7, 9, 10} : ~IsDigit(s[i]) THEN NoDate
  ELSE LET year == DecimalValue(SubSeq(s, 1, 4), 0)
           month == DecimalValue(SubSeq(s, 6, 7), 0)
           day == DecimalValue(SubSeq(s, 9, 10), 0)
       IN IF month < 1 \/ month > 12 \/ day < 1 \/ day > DaysIn(month, year)
            THEN NoDate
            ELSE [ok |-> TRUE, year |-> year, month |-> month, day |-> day]

(* types.TimeToDaysSinceEpoch: whole days since 1985-01-01, for a date that *)
(* is not before it.                                                        *)
TimeToDaysSinceEpoch(date) == date - DateOf(EpochYear, 1, 1)

daysSinceEpoch(year, month, day) == TimeToDaysSinceEpoch(DateOf(year, month, day))

(* ---- conversion to the binary record, api package ---- *)
NilMeasurement == [isNil |-> TRUE, Qc |-> << >>]

(* mv != nil && mv.Qc != " " && mv.Qc != "" *)
HasQCFlag(mv) == ~mv.isNil /\ mv.Qc # << " " >> /\ mv.Qc # << >>

(* x |= y on a byte, from bit k up *)
RECURSIVE BitOrFrom(_, _, _)
BitOrFrom(x, y, k) ==
  IF k > 7 THEN 0
  ELSE (IF ((x \div (2 ^ k)) % 2 = 1) \/ ((y \div (2 ^ k)) % 2 = 1) THEN 2 ^ k ELSE 0)
       + BitOrFrom(x, y, k + 1)

(* mutation of QCFlagsOf: the ETo code sets the temperature bit *)
QCFlagsOfOneBit(rec) ==
  BitOrFrom(IF HasQCFlag(rec.DayAirTmpAvg) THEN 1 ELSE 0,
            IF HasQCFlag(rec.DayAsceEto) THEN 1 ELSE 0, 0)

(* qcFlags |= 0x01 for the air temperature, qcFlags |= 0x02 for ETo *)
QCFlagsOf(rec) ==
  BitOrFrom(IF HasQCFlag(rec.DayAirTmpAvg) THEN 1 ELSE 0,
            IF HasQCFlag(rec.DayAsceEto) THEN 2 ELSE 0, 0)

DailyRecord(ts, stationID, qc) ==
  [Timestamp |-> ts, StationID |-> stationID, QCFlags |-> qc]

ZeroRecord == DailyRecord(0, 0, 0)

(* The timestamp the fast converters give a date: the fast parser, or the   *)
(* fallback to time.Parse; ok is false when the record is skipped.          *)
FastTimestamp(s) ==
  LET fast == parseDateYYYYMMDD(s) IN
    IF fast.ok THEN [ok |-> TRUE, ts |-> daysSinceEpoch(fast.year, fast.month, fast.day)]
    ELSE LET date == TimeParse(s) IN
           IF ~date.ok THEN [ok |-> FALSE, ts |-> 0]
           ELSE [ok |-> TRUE,
                 ts |-> TimeToDaysSinceEpoch(DateOf(date.year, date.month, date.day))]

RECURSIVE ConvertDailyToRecords(_, _)
ConvertDailyToRecords(apiRecords, stationID) ==
  IF apiRecords = << >> THEN << >>
  ELSE LET apiRec == Head(apiRecords)
           date == TimeParse(apiRec.Date)
           rest == ConvertDailyToRecords(Tail(apiRecords), stationID)
       IN IF ~date.ok THEN rest
          ELSE << DailyRecord(
                    TimeToDaysSinceEpoch(DateOf(date.year, date.month, date.day)),
                    stationID, QCFlagsOf(apiRec)) >> \o rest

RECURSIVE ConvertDailyToRecordsFast(_, _)
ConvertDailyToRecordsFast(apiRecords, stationID) ==
  IF apiRecords = << >> THEN << >>
  ELSE LET apiRec == Head(apiRecords)
           t == FastTimestamp(apiRec.Date)
           rest == ConvertDailyToRecordsFast(Tail(apiRecords), stationID)
       IN IF ~t.ok THEN rest
          ELSE << DailyRecord(t.ts, stationID, QCFlagsOf(apiRec)) >> \o rest

RECURSIVE ConvertMinimalDailyToRecords(_, _)
ConvertMinimalDailyToRecords(minRecords, stationID) ==
  IF minRecords = << >> THEN << >>
  ELSE LET apiRec == Head(minRecords)
           t == FastTimestamp(apiRec.Date)
           rest == ConvertMinimalDailyToRecords(Tail(minRecords), stationID)
       IN IF ~t.ok THEN rest
          ELSE << DailyRecord(t.ts, stationID, QCFlagsOf(apiRec)) >> \o rest

(* streamingToDailyRecord: the zero record when the date parses neither way *)
streamingToDailyRecord(sdr, stationID) ==
  LET t == FastTimestamp(sdr.Date) IN
    IF ~t.ok THEN ZeroRecord ELSE DailyRecord(t.ts, stationID, QCFlagsOf(sdr))

(* ---- the date parser and the converters on their own ---- *)

(* Dates the service can send: four, two and two characters around two      *)
(* separators, and the malformed strings of the package's tests.            *)
DateInputs ==
  LET years == { << "1", "9", "8", "4" >>,
               << "1", "9", "8", "5" >>,
               << "2", "0", "2", "3" >>,
               << "2", "0", "2", "4" >>,
               << "2", "1", "0", "0" >>,
               << "2", "1", "0", "1" >>,
               << "1", "9", ":", "5" >> }
      months == { << "0", "0" >>,
                << "0", "1" >>,
                << "0", "2" >>,
                << "0", "4" >>,
                << "0", ":" >>,
                << "1", "2" >>,
                << "1", "3" >>,
                << "1", "x" >> }
      days == { << "0", "0" >>,
              << "0", "1" >>,
              << "2", "8" >>,
              << "2", "9" >>,
              << "3", "0" >>,
              << "3", "1" >>,
              << "3", "2" >>,
              << "2", ":" >> }
      seps == { "-", "/" }
  IN { y \o << a >> \o m \o << b >> \o d :
         y \in years, a \in seps, m \in months, b \in seps, d \in days }
     \cup { <<  >>,
            << "s", "h", "o", "r", "t" >>,
            << "2", "0", "2", "4", "0", "1", "1", "5", "x", "x" >>,
            << "i", "n", "v", "a", "l", "i", "d", "-", "d", "a", "t", "e" >>,
            << "2", "0", "2", "4", "-", "1", "-", "1", "5" >> }

(* The record lists the converters are called with; none holds a date       *)
(* before the epoch, whose day count the types package converts.            *)
ConvertInputs ==
  LET qcCodes == { << >>, << " " >>, << "R" >>, << " ", " " >> }
      measurements ==
        { NilMeasurement } \cup { [isNil |-> FALSE, Qc |-> q] : q \in qcCodes }
      dates == { << "2", "0", "2", "4", "-", "0", "1", "-", "1", "5" >>,
               << "1", "9", "8", "5", "-", "0", "1", "-", "0", "2" >>,
               << "2", "0", "2", "4", "-", "0", "2", "-", "3", "1" >>,
               << "i", "n", "v", "a", "l", "i", "d", "-", "d", "a", "t", "e" >> }
      records == [Date : dates, DayAirTmpAvg : measurements,
                  DayAsceEto : measurements]
  IN UNION { [1..n -> records] : n \in 0..MaxConvertLen }
     \cup { << [Date |-> d, DayAirTmpAvg |-> NilMeasurement,
                DayAsceEto |-> NilMeasurement] >> :
              d \in { e \in DateInputs :
                        TimeParse(e).ok => TimeParse(e).year >= EpochYear } }

ConvertInit ==
  /\ Standalone
  /\ Idle
  /\ mpc = "call"
  /\ ret = NoCall
  /\ batch = NoCall
  /\ pm = NoCall
  /\ profiler = NoCall
  /\ \/ \E s \in DateInputs : arg = [fn |-> "parseDateYYYYMMDD", s |-> s]
     \/ \E f \in { "ConvertDailyToRecords", "ConvertDailyToRecordsFast",
                   "ConvertMinimalDailyToRecords" } :
          \E l \in ConvertInputs, id \in StationIDs :
            arg = [fn |-> f, records |-> l, stationID |-> id]
     \/ \E l \in ConvertInputs, id \in StationIDs :
          /\ Len(l) = 1
          /\ arg = [fn |-> "streamingToDailyRecord", sdr |-> l[1], stationID |-> id]

CallParseDate ==
  /\ mpc = "call"
  /\ arg.fn = "parseDateYYYYMMDD"
  /\ ret' = [fn |-> arg.fn, date |-> parseDateYYYYMMDD(arg.s)]
  /\ mpc' = "returned"
  /\ UNCHANGED << pipelineVars, arg, batch, pm, profiler >>

CallConvertDailyToRecords ==
  /\ mpc = "call"
  /\ arg.fn = "ConvertDailyToRecords"
  /\ ret' = [fn |-> arg.fn,
             records |-> ConvertDailyToRecords(arg.records, arg.stationID)]
  /\ mpc' = "returned"
  /\ UNCHANGED << pipelineVars, arg, batch, pm, profiler >>

CallConvertDailyToRecordsFast ==
  /\ mpc = "call"
  /\ arg.fn = "ConvertDailyToRecordsFast"
  /\ ret' = [fn |-> arg.fn,
             records |-> ConvertDailyToRecordsFast(arg.records, arg.stationID)]
  /\ mpc' = "returned"
  /\ UNCHANGED << pipelineVars, arg, batch, pm, profiler >>

CallConvertMinimalDailyToRecords ==
  /\ mpc = "call"
  /\ arg.fn = "ConvertMinimalDailyToRecords"
  /\ ret' = [fn |-> arg.fn,
             records |-> ConvertMinimalDailyToRecords(arg.records, arg.stationID)]
  /\ mpc' = "returned"
  /\ UNCHANGED << pipelineVars, arg, batch, pm, profiler >>

CallStreamingToDailyRecord ==
  /\ mpc = "call"
  /\ arg.fn = "streamingToDailyRecord"
  /\ ret' = [fn |-> arg.fn,
             record |-> streamingToDailyRecord(arg.sdr, arg.stationID)]
  /\ mpc' = "returned"
  /\ UNCHANGED << pipelineVars, arg, batch, pm, profiler >>

ConvertNext ==
  \/ CallParseDate
  \/ CallConvertDailyToRecords
  \/ CallConvertDailyToRecordsFast
  \/ CallConvertMinimalDailyToRecords
  \/ CallStreamingToDailyRecord

ConvertSpec == ConvertInit /\ [][ConvertNext]_vars

(* ---- FetchDailyDataStreaming on its own, api package ---- *)

(* mutation of IsValidRecord: a record with timestamp 0 is kept *)
IsValidRecordAlways(record) == record.Timestamp >= 0

(* if record.Timestamp > 0 *)
IsValidRecord(record) == record.Timestamp > 0

(* mutation of StatusOK: the status of the response is not looked at *)
StatusOKAlways(status) == status = status

(* resp.StatusCode != http.StatusOK, negated *)
StatusOK(status) == status = HTTPStatusOK

(* for _, provider := range providers { for _, sdr := range provider.Records *)
RECURSIVE ProviderRecords(_)
ProviderRecords(providers) ==
  IF providers = << >> THEN << >>
  ELSE Head(providers) \o ProviderRecords(Tail(providers))

RECURSIVE AppendValid(_, _)
AppendValid(sdrs, stationID) ==
  IF sdrs = << >> THEN << >>
  ELSE LET record == streamingToDailyRecord(Head(sdrs), stationID)
           rest == AppendValid(Tail(sdrs), stationID)
       IN IF IsValidRecord(record) THEN << record >> \o rest ELSE rest

(* The body as the JSON decoder meets it: nothing at all, a token that does *)
(* not scan, no "Providers" string, a Providers value that is not a list of *)
(* providers, or the list of providers.                                     *)
streamDecodeDaily(body, stationID) ==
  IF body.json = "ok"
    THEN [records |-> AppendValid(ProviderRecords(body.providers), stationID),
          err |-> NoError]
    ELSE [records |-> << >>, err |-> DecodeError]

(* The responses the server can give: a request that cannot be built, a     *)
(* transport error, or a status with a body of some bytes.                  *)
FetchResponses ==
  LET dates == { << "2", "0", "2", "4", "-", "0", "1", "-", "1", "5" >>,
                 << "2", "0", "2", "4", "-", "0", "1", "-", "1", "6" >>,
                 << "1", "9", "8", "5", "-", "0", "1", "-", "0", "1" >>,
                 << "i", "n", "v", "a", "l", "i", "d", "-", "d", "a", "t", "e" >> }
      sdrs == { [Date |-> d, DayAirTmpAvg |-> NilMeasurement,
                 DayAsceEto |-> NilMeasurement] : d \in dates }
      lists(n) == UNION { [1..k -> sdrs] : k \in 0..n }
      providers == { << >> } \cup { << p >> : p \in lists(MaxBodyRecords) }
                     \cup { << p, q >> : p \in lists(1), q \in lists(1) }
      bodies ==
        { [json |-> "empty", providers |-> << >>, bytes |-> 0] }
        \cup { [json |-> k, providers |-> << >>, bytes |-> b] :
                 k \in { "malformed", "noProviders", "badProviders" },
                 b \in 1..MaxBodyBytes }
        \cup { [json |-> "ok", providers |-> p, bytes |-> b] :
                 p \in providers, b \in 1..MaxBodyBytes }
  IN { [request |-> "bad", transportOK |-> FALSE, status |-> 0,
        body |-> [json |-> "empty", providers |-> << >>, bytes |-> 0]],
       [request |-> "ok", transportOK |-> FALSE, status |-> 0,
        body |-> [json |-> "empty", providers |-> << >>, bytes |-> 0]] }
     \cup { [request |-> "ok", transportOK |-> TRUE, status |-> s, body |-> b] :
              s \in { HTTPStatusOK } \cup NonOKStatuses, b \in bodies }

FetchInit ==
  /\ Standalone
  /\ Idle
  /\ mpc = "call"
  /\ ret = NoCall
  /\ batch = NoCall
  /\ pm = NoCall
  /\ profiler = NoCall
  /\ \E resp \in FetchResponses, id \in StationIDs :
       arg = [fn |-> "FetchDailyDataStreaming", resp |-> resp, stationID |-> id]

(* The whole of FetchDailyDataStreaming; decoded tells whether               *)
(* streamDecodeDaily was called.                                            *)
CallFetchDailyDataStreaming ==
  /\ mpc = "call"
  /\ arg.fn = "FetchDailyDataStreaming"
  /\ LET resp == arg.resp
         metrics == [RecordsFetched |-> 0, BytesTransferred |-> 0]
         failed(e) == [fn |-> arg.fn, records |-> << >>, metrics |-> metrics,
                       err |-> e, decoded |-> FALSE]
         out == streamDecodeDaily(resp.body, ToUint16(arg.stationID))
     IN ret' =
          IF resp.request # "ok" THEN failed([kind |-> "request", status |-> 0])
          ELSE IF ~resp.transportOK THEN failed(TransportError)
          ELSE IF ~StatusOK(resp.status) THEN failed(StatusError(resp.status))
          ELSE IF out.err # NoError
            THEN [fn |-> arg.fn, records |-> << >>, metrics |-> metrics,
                  err |-> DecodeError, decoded |-> TRUE]
            ELSE [fn |-> arg.fn, records |-> out.records,
                  metrics |-> [metrics EXCEPT !.RecordsFetched = Len(out.records)],
                  err |-> NoError, decoded |-> TRUE]
  /\ mpc' = "returned"
  /\ UNCHANGED << pipelineVars, arg, batch, pm, profiler >>

FetchNext == CallFetchDailyDataStreaming

FetchSpec == FetchInit /\ [][FetchNext]_vars

(* ---- FetchMultipleStations, api package ---- *)

(* if workerPool <= 0 { workerPool = 4 } *)
PoolSize(workerPool) == IF workerPool <= 0 THEN DefaultPool ELSE workerPool

(* mutation of Acquirable: the semaphore takes one token more than it holds *)
AcquirableOver(held, capacity) == held <= capacity

(* semaphore <- struct{}{} goes through while the channel is not full *)
Acquirable(held, capacity) == held < capacity

(* mutation of WaitDone: wg.Wait returns while one goroutine is not done *)
WaitDoneEarly(counter) == counter <= 1

(* wg.Wait() returns when the counter is 0 *)
WaitDone(counter) == counter = 0

(* The call is entered: results and the semaphore are made, no goroutine    *)
(* runs. asked is the workerPool argument; fetched, writes, acquired and     *)
(* released are the history of each goroutine.                              *)
BatchInit ==
  /\ Standalone
  /\ Idle
  /\ mpc = "call"
  /\ arg = NoCall
  /\ ret = NoCall
  /\ pm = NoCall
  /\ profiler = NoCall
  /\ \E ids \in UNION { [1..n -> StationIDs] : n \in 0..MaxBatchLen }
                  \cup { [k \in 1..(DefaultPool + 1) |-> IF k % 2 = 1 THEN 2 ELSE 5] },
        pool \in (-1)..MaxWorkers :
       batch = [fn |-> "FetchMultipleStations",
                stationIDs |-> ids,
                asked |-> pool,
                workerPool |-> PoolSize(pool),
                results |-> [k \in 1..Len(ids) |-> [StationID |-> 0, n |-> 0, err |-> NoError]],
                wg |-> 0,
                semaphore |-> 0,
                i |-> 1,
                pc |-> "loop",
                gpc |-> [k \in 1..Len(ids) |-> "unborn"],
                fetched |-> [k \in 1..Len(ids) |-> [n |-> 0, err |-> NoError]],
                writes |-> [k \in 1..Len(ids) |-> 0],
                acquired |-> [k \in 1..Len(ids) |-> 0],
                released |-> [k \in 1..Len(ids) |-> 0],
                returned |-> << >>]

(* One turn of the loop: wg.Add(1), the token is sent, the goroutine starts. *)
Dispatch ==
  /\ batch.fn = "FetchMultipleStations"
  /\ batch.pc = "loop"
  /\ batch.i <= Len(batch.stationIDs)
  /\ Acquirable(batch.semaphore, batch.workerPool)
  /\ batch' = [batch EXCEPT !.wg = @ + 1,
                            !.semaphore = @ + 1,
                            !.acquired[batch.i] = @ + 1,
                            !.gpc[batch.i] = "fetching",
                            !.i = @ + 1]
  /\ UNCHANGED << pipelineVars, mpc, arg, ret, pm, profiler >>

(* records, metrics, err := c.FetchDailyDataStreaming(...) returns, with an *)
(* error or with records, and results[idx] is written.                      *)
GoFetch(idx) ==
  /\ batch.fn = "FetchMultipleStations"
  /\ batch.gpc[idx] = "fetching"
  /\ \E resp \in { r \in Responses : r.transportOK => r.n = MaxRecords } :
       LET out == FetchDailyDataStreaming(resp) IN
         batch' = [batch EXCEPT
                     !.results[idx] = [StationID |-> batch.stationIDs[idx],
                                       n |-> out.n, err |-> out.err],
                     !.fetched[idx] = out,
                     !.writes[idx] = @ + 1,
                     !.gpc[idx] = "stored"]
  /\ UNCHANGED << pipelineVars, mpc, arg, ret, pm, profiler >>

(* defer func() { <-semaphore }(), the deferred call that runs first *)
GoRelease(idx) ==
  /\ batch.fn = "FetchMultipleStations"
  /\ batch.gpc[idx] = "stored"
  /\ batch.semaphore > 0
  /\ batch' = [batch EXCEPT !.semaphore = @ - 1,
                            !.released[idx] = @ + 1,
                            !.gpc[idx] = "released"]
  /\ UNCHANGED << pipelineVars, mpc, arg, ret, pm, profiler >>

(* defer wg.Done() *)
GoDone(idx) ==
  /\ batch.fn = "FetchMultipleStations"
  /\ batch.gpc[idx] = "released"
  /\ batch' = [batch EXCEPT !.wg = @ - 1, !.gpc[idx] = "done"]
  /\ UNCHANGED << pipelineVars, mpc, arg, ret, pm, profiler >>

(* The loop is over; wg.Wait() and return results. *)
WaitReturn ==
  /\ batch.fn = "FetchMultipleStations"
  /\ batch.pc = "loop"
  /\ batch.i > Len(batch.stationIDs)
  /\ WaitDone(batch.wg)
  /\ batch' = [batch EXCEPT !.pc = "returned", !.returned = batch.results]
  /\ UNCHANGED << pipelineVars, mpc, arg, ret, pm, profiler >>

BatchNext ==
  \/ Dispatch
  \/ \E idx \in 1..(DefaultPool + 1) :
       /\ batch.fn = "FetchMultipleStations"
       /\ idx <= Len(batch.stationIDs)
       /\ (GoFetch(idx) \/ GoRelease(idx) \/ GoDone(idx))
  \/ WaitReturn

BatchSpec == BatchInit /\ [][BatchNext]_vars

(* ---- PerformanceMonitor, profile package ---- *)

(* A monitor, one goroutine that calls PrintReport and MaxRecorders that    *)
(* each call RecordQueryTime, RecordIngestTime or RecordCompression once.   *)
(* mu is the sync.RWMutex: readers holds the read locks taken, writer the   *)
(* goroutine whose Lock has been announced (0 when none), which keeps new   *)
(* readers out until it has unlocked.                                       *)
MonitorInit ==
  /\ Standalone
  /\ Idle
  /\ mpc = "call"
  /\ arg = NoCall
  /\ ret = NoCall
  /\ batch = NoCall
  /\ profiler = NoCall
  /\ \E kinds \in [1..MaxRecorders -> {"queryTimes", "ingestTimes", "compressions"}] :
       pm = [fn |-> "PerformanceMonitor",
             mu |-> [readers |-> 0, writer |-> 0],
             queryTimes |-> 0, ingestTimes |-> 0, compressions |-> 0,
             records |-> kinds,
             rpc |-> [r \in 1..MaxRecorders |-> "call"],
             report |-> "call",
             averages |-> 0]

(* pm.mu.Lock(), first half: the writers' mutex is taken and the Lock is    *)
(* announced to the readers.                                                *)
RecordLock(r) ==
  /\ pm.fn = "PerformanceMonitor"
  /\ pm.rpc[r] = "call"
  /\ pm.mu.writer = 0
  /\ pm' = [pm EXCEPT !.mu.writer = r, !.rpc[r] = "waiting"]
  /\ UNCHANGED << pipelineVars, mpc, arg, ret, batch, profiler >>

(* pm.mu.Lock(), second half: the read locks held have all been released *)
RecordAcquire(r) ==
  /\ pm.fn = "PerformanceMonitor"
  /\ pm.rpc[r] = "waiting"
  /\ pm.mu.readers = 0
  /\ pm' = [pm EXCEPT !.rpc[r] = "locked"]
  /\ UNCHANGED << pipelineVars, mpc, arg, ret, batch, profiler >>

(* the append, and the deferred pm.mu.Unlock() *)
RecordUnlock(r) ==
  /\ pm.fn = "PerformanceMonitor"
  /\ pm.rpc[r] = "locked"
  /\ pm' = [pm EXCEPT ![pm.records[r]] = @ + 1,
                      !.mu.writer = 0,
                      !.rpc[r] = "returned"]
  /\ UNCHANGED << pipelineVars, mpc, arg, ret, batch, profiler >>

(* PrintReport: pm.mu.RLock() *)
PrintReportRLock ==
  /\ pm.fn = "PerformanceMonitor"
  /\ pm.report = "call"
  /\ pm.mu.writer = 0
  /\ pm' = [pm EXCEPT !.mu.readers = @ + 1, !.report = "printing"]
  /\ UNCHANGED << pipelineVars, mpc, arg, ret, batch, profiler >>

(* GetAverageQueryTime, GetAverageIngestTime, GetAverageCompressionRatio,   *)
(* called in turn by PrintReport: pm.mu.RLock()                             *)
GetAverageRLock ==
  /\ pm.fn = "PerformanceMonitor"
  /\ pm.report = "printing"
  /\ pm.averages < 3
  /\ pm.mu.writer = 0
  /\ pm' = [pm EXCEPT !.mu.readers = @ + 1, !.report = "averaging"]
  /\ UNCHANGED << pipelineVars, mpc, arg, ret, batch, profiler >>

(* the average, and the deferred pm.mu.RUnlock() *)
GetAverageRUnlock ==
  /\ pm.fn = "PerformanceMonitor"
  /\ pm.report = "averaging"
  /\ pm' = [pm EXCEPT !.mu.readers = @ - 1,
                      !.averages = @ + 1,
                      !.report = "printing"]
  /\ UNCHANGED << pipelineVars, mpc, arg, ret, batch, profiler >>

(* PrintReport: the last line is written; the deferred pm.mu.RUnlock() *)
PrintReportRUnlock ==
  /\ pm.fn = "PerformanceMonitor"
  /\ pm.report = "printing"
  /\ pm.averages = 3
  /\ pm' = [pm EXCEPT !.mu.readers = @ - 1, !.report = "returned"]
  /\ UNCHANGED << pipelineVars, mpc, arg, ret, batch, profiler >>

MonitorNext ==
  \/ \E r \in 1..MaxRecorders : RecordLock(r) \/ RecordAcquire(r) \/ RecordUnlock(r)
  \/ PrintReportRLock
  \/ GetAverageRLock
  \/ GetAverageRUnlock
  \/ PrintReportRUnlock

MonitorSpec == MonitorInit /\ [][MonitorNext]_vars

(* ---- Profiler, profile package ---- *)

(* mutation of AlreadyRunning: StartCPUProfile does not look at isRunning *)
AlreadyRunningIgnored(isRunning) == isRunning /\ ~isRunning

(* if p.isRunning { return fmt.Errorf("profiling already running") } *)
AlreadyRunning(isRunning) == isRunning

(* NewProfiler(); calls counts the calls made, last is what the last call   *)
(* found and returned, history the calls that returned nil.                 *)
ProfilerInit ==
  /\ Standalone
  /\ Idle
  /\ mpc = "call"
  /\ arg = NoCall
  /\ ret = NoCall
  /\ batch = NoCall
  /\ pm = NoCall
  /\ profiler = [fn |-> "Profiler", isRunning |-> FALSE, cpuFile |-> "nil",
                 calls |-> 0,
                 last |-> [op |-> "none", was |-> FALSE, err |-> "nil"],
                 history |-> << >>]

(* StartCPUProfile, the whole of it under p.mu: os.Create and               *)
(* pprof.StartCPUProfile can each fail.                                     *)
StartCPUProfile ==
  /\ profiler.fn = "Profiler"
  /\ profiler.calls < MaxCalls
  /\ \E created \in BOOLEAN, started \in BOOLEAN :
       LET e == IF AlreadyRunning(profiler.isRunning) THEN "profiling already running"
                ELSE IF ~created THEN "could not create CPU profile"
                ELSE IF ~started THEN "could not start CPU profile"
                ELSE "nil"
           called == [profiler EXCEPT
                        !.calls = @ + 1,
                        !.last = [op |-> "start", was |-> profiler.isRunning, err |-> e]]
       IN profiler' =
            IF e # "nil" THEN called
            ELSE [called EXCEPT !.cpuFile = "open",
                                !.isRunning = TRUE,
                                !.history = Append(@, "start")]
  /\ UNCHANGED << pipelineVars, mpc, arg, ret, batch, pm >>

(* StopCPUProfile, the whole of it under p.mu *)
StopCPUProfile ==
  /\ profiler.fn = "Profiler"
  /\ profiler.calls < MaxCalls
  /\ LET e == IF ~profiler.isRunning THEN "profiling not running" ELSE "nil"
         called == [profiler EXCEPT
                      !.calls = @ + 1,
                      !.last = [op |-> "stop", was |-> profiler.isRunning, err |-> e]]
     IN profiler' =
          IF e # "nil" THEN called
          ELSE [called EXCEPT !.cpuFile = IF @ = "nil" THEN "nil" ELSE "closed",
                              !.isRunning = FALSE,
                              !.history = Append(@, "stop")]
  /\ UNCHANGED << pipelineVars, mpc, arg, ret, batch, pm >>

ProfilerNext == StartCPUProfile \/ StopCPUProfile

ProfilerSpec == ProfilerInit /\ [][ProfilerNext]_vars

(* ---- cmdFetchStreaming ---- *)

(* The -stations value is required, must parse and must name a station;    *)
(* log.Fatal ends the process. The list is sorted before anything else.    *)
Resolve ==
  /\ mpc = "parse"
  /\ LET r == parseStationList(input) IN
       IF input = << >> \/ r.err # NoParseError \/ NoStations(r.stations)
         THEN /\ mpc' = "fatal"
              /\ perr' = IF input = << >> THEN NoParseError ELSE r.err
              /\ UNCHANGED << stationList, log >>
         ELSE /\ mpc' = "spawn"
              /\ perr' = NoParseError
              /\ stationList' = sortStations(r.stations)
              /\ log' = [j \in 1..Len(r.stations) |-> NewLog]
  /\ UNCHANGED << input, concurrency, maxRetries, dryRun, mi, jobs, jobsClosed,
                  results, wpc, wjob, attempt, err, nrec, wdelay, wres,
                  storeVars, collectVars, arg, ret, batch, pm, profiler >>

(* for w := 0; w < *concurrency; w++ { go func() {...}() } *)
SpawnWorker ==
  /\ mpc = "spawn"
  /\ mi < concurrency
  /\ wpc' = [wpc EXCEPT ![mi + 1] = "recv"]
  /\ mi' = mi + 1
  /\ UNCHANGED << flags, mpc, jobs, jobsClosed, results, wjob, attempt, err,
                  nrec, wdelay, wres, storeVars, collectVars, log >>

(* the spawn loop ends *)
StartEnqueue ==
  /\ mpc = "spawn"
  /\ ~(mi < concurrency)
  /\ mpc' = "enqueue"
  /\ mi' = 0
  /\ UNCHANGED << flags, jobs, jobsClosed, results, wpc, wjob, attempt, err,
                  nrec, wdelay, wres, storeVars, collectVars, log >>

(* jobs <- job{stationID: uint16(sid)}; the channel holds len(stationList) *)
Enqueue ==
  /\ mpc = "enqueue"
  /\ mi < NumJobs
  /\ Len(jobs) < ChanCap(NumJobs)
  /\ jobs' = Append(jobs, [idx |-> mi + 1, stationID |-> ToUint16(stationList[mi + 1])])
  /\ mi' = mi + 1
  /\ UNCHANGED << flags, mpc, jobsClosed, results, wpc, wjob, attempt, err,
                  nrec, wdelay, wres, storeVars, collectVars, log >>

(* close(jobs) *)
CloseJobs ==
  /\ mpc = "enqueue"
  /\ mi = NumJobs
  /\ jobsClosed' = Close(jobsClosed)
  /\ mpc' = "collect"
  /\ mi' = 0
  /\ UNCHANGED << flags, jobs, results, wpc, wjob, attempt, err, nrec, wdelay,
                  wres, storeVars, collectVars, log >>

(* m := <-results; append; count *)
Collect ==
  /\ mpc = "collect"
  /\ mi < CollectBound(NumJobs)
  /\ results # << >>
  /\ LET m == Head(results) IN
       /\ allMetrics' = Append(allMetrics, m)
       /\ IF m.success
            THEN /\ successCount' = successCount + 1
                 /\ failCount' = failCount
            ELSE /\ failCount' = failCount + 1
                 /\ successCount' = successCount
       /\ totalRecords' = AddRecords(totalRecords, m)
  /\ results' = Tail(results)
  /\ mi' = mi + 1
  /\ UNCHANGED << flags, mpc, jobs, jobsClosed, wpc, wjob, attempt, err, nrec,
                  wdelay, wres, storeVars, log >>

(* the collect loop ends; the summary is printed and the command returns *)
PrintSummary ==
  /\ mpc = "collect"
  /\ ~(mi < CollectBound(NumJobs))
  /\ mpc' = "done"
  /\ UNCHANGED << flags, mi, jobs, jobsClosed, results, wpc, wjob, attempt, err,
                  nrec, wdelay, wres, storeVars, collectVars, log >>

(* ---- the worker goroutine ---- *)

(* for j := range jobs: a job is received *)
WorkerRecv(w) ==
  /\ wpc[w] = "recv"
  /\ jobs # << >>
  /\ wjob' = [wjob EXCEPT ![w] = Head(jobs)]
  /\ jobs' = Dequeue(jobs)
  /\ wpc' = [wpc EXCEPT ![w] = "exists"]
  /\ log' = [log EXCEPT ![Head(jobs).idx].taken = @ + 1]
  /\ UNCHANGED << flags, mainVars, jobsClosed, results, attempt, err, nrec,
                  wdelay, wres, storeVars, collectVars >>

(* for j := range jobs: the channel is closed and drained *)
WorkerExit(w) ==
  /\ wpc[w] = "recv"
  /\ jobs = << >>
  /\ jobsClosed
  /\ wpc' = [wpc EXCEPT ![w] = "exited"]
  /\ UNCHANGED << flags, mainVars, jobs, jobsClosed, results, wjob, attempt,
                  err, nrec, wdelay, wres, storeVars, collectVars, log >>

(* ---- fetchStationStreaming ---- *)

MkResult(w, ok, n, e) ==
  [idx |-> wjob[w].idx, stationID |-> wjob[w].stationID, success |-> ok,
   recordCount |-> n, err |-> e]

(* return m: the locals of the call go out of scope *)
Return(w, res, lg) ==
  /\ wres' = [wres EXCEPT ![w] = res]
  /\ wpc' = [wpc EXCEPT ![w] = "send"]
  /\ attempt' = [attempt EXCEPT ![w] = 0]
  /\ err' = [err EXCEPT ![w] = NoError]
  /\ nrec' = [nrec EXCEPT ![w] = 0]
  /\ wdelay' = [wdelay EXCEPT ![w] = 0]
  /\ log' = [log EXCEPT ![wjob[w].idx] = [lg EXCEPT !.returned = TRUE, !.ret = res]]

(* the call goes on to its next external call at position pc *)
Goto(w, pc, att, e, n, lg) ==
  /\ wpc' = [wpc EXCEPT ![w] = pc]
  /\ attempt' = [attempt EXCEPT ![w] = att]
  /\ err' = [err EXCEPT ![w] = e]
  /\ nrec' = [nrec EXCEPT ![w] = n]
  /\ wdelay' = [wdelay EXCEPT ![w] = 0]
  /\ log' = [log EXCEPT ![wjob[w].idx] = lg]
  /\ UNCHANGED wres

(* the code after the retry loop, up to the next external call:            *)
(* if err != nil { fail }; m.recordCount = len(records); write or succeed; *)
(* attempt is scoped to the for statement                                  *)
AfterLoop(w, e, n, lg) ==
  IF e # NoError
    THEN Return(w, MkResult(w, FALSE, 0, e), lg)
    ELSE IF NeedsWrite(dryRun, n)
      THEN Goto(w, "write", 0, e, n, lg)
      ELSE Return(w, MkResult(w, TRUE, n, NoError), lg)

(* exists, _ := store.ChunkExists(stationID, year, DataTypeDaily); the     *)
(* store answers from its markers, or fails and the error is dropped       *)
ChunkExists(w) ==
  /\ wpc[w] = "exists"
  /\ \E answered \in BOOLEAN :
       LET exists == answered /\ wjob[w].stationID \in markers
           lg == [log[wjob[w].idx] EXCEPT !.exists = IF exists THEN "yes" ELSE "no"]
       IN IF ShouldSkip(exists)
            THEN Return(w, MkResult(w, TRUE, 0, NoError), lg)
            ELSE IF LoopCond(0, maxRetries)
              THEN Goto(w, "fetch", 0, NoError, 0, lg)
              ELSE AfterLoop(w, NoError, 0, lg)
  /\ UNCHANGED << flags, mainVars, jobs, jobsClosed, results, wjob, storeVars,
                  collectVars >>

(* if attempt > 0 { time.Sleep(backoff + jitter) } *)
Sleep(w) ==
  /\ wpc[w] = "backoff"
  /\ \E jitter \in Jitters(attempt[w]) :
       wdelay' = [wdelay EXCEPT ![w] = Backoff(attempt[w]) + jitter]
  /\ wpc' = [wpc EXCEPT ![w] = "fetch"]
  /\ log' = [log EXCEPT ![wjob[w].idx].sleeps = @ + 1]
  /\ UNCHANGED << flags, mainVars, jobs, jobsClosed, results, wjob, attempt,
                  err, nrec, wres, storeVars, collectVars >>

(* records, fetchMetrics, err = client.FetchDailyDataStreaming(...) and the *)
(* rest of the loop body: break on success, else attempt++ and the loop test *)
Fetch(w) ==
  /\ wpc[w] = "fetch"
  /\ \E resp \in Responses :
       LET out == FetchDailyDataStreaming(resp)
           old == log[wjob[w].idx]
           lg == [old EXCEPT !.fetchCalls = @ + 1,
                             !.fetchOks = IF out.err = NoError THEN @ + 1 ELSE @,
                             !.lastFetch = out.err,
                             !.lastN = out.n]
           e == AssignErr(err[w], out.err)
       IN IF e = NoError
            THEN AfterLoop(w, e, out.n, lg)
            ELSE IF Continue(attempt[w], maxRetries, e)
              THEN Goto(w, "backoff", attempt[w] + 1, e, out.n, lg)
              ELSE AfterLoop(w, e, out.n, lg)
  /\ UNCHANGED << flags, mainVars, jobs, jobsClosed, results, wjob, storeVars,
                  collectVars >>

(* _, err := writer.WriteDailyChunk(stationID, year, records) *)
WriteDailyChunk(w) ==
  /\ wpc[w] = "write"
  /\ \E ok \in BOOLEAN :
       LET old == log[wjob[w].idx]
           lg == [old EXCEPT !.writeCalls = @ + 1,
                             !.writeOks = IF ok THEN @ + 1 ELSE @]
       IN /\ files' = IF ok THEN [files EXCEPT ![wjob[w].stationID] = @ + 1] ELSE files
          /\ IF WriteFailed(ok)
               THEN Return(w, MkResult(w, FALSE, nrec[w], WriteError), lg)
               ELSE Goto(w, "save", attempt[w], err[w], nrec[w], lg)
  /\ UNCHANGED << flags, mainVars, jobs, jobsClosed, results, wjob, markers,
                  collectVars >>

(* if err := store.SaveChunk(&types.ChunkInfo{...}); err != nil *)
SaveChunk(w) ==
  /\ wpc[w] = "save"
  /\ \E ok \in BOOLEAN :
       LET old == log[wjob[w].idx]
           lg == [old EXCEPT !.saveCalls = @ + 1,
                             !.saveOks = IF ok THEN @ + 1 ELSE @]
       IN /\ markers' = IF ok THEN markers \cup {wjob[w].stationID} ELSE markers
          /\ IF SaveFailed(ok)
               THEN Return(w, MkResult(w, FALSE, nrec[w], SaveError), lg)
               ELSE Return(w, MkResult(w, TRUE, nrec[w], NoError), lg)
  /\ UNCHANGED << flags, mainVars, jobs, jobsClosed, results, wjob, files,
                  collectVars >>

(* results <- m; the channel holds len(stationList); the iteration ends *)
SendResult(w) ==
  /\ wpc[w] = "send"
  /\ Len(results) < ChanCap(NumJobs)
  /\ results' = Append(results, wres[w])
  /\ wpc' = [wpc EXCEPT ![w] = AfterSend(wres[w])]
  /\ wjob' = [wjob EXCEPT ![w] = NoJob]
  /\ wres' = [wres EXCEPT ![w] = NoResult]
  /\ log' = [log EXCEPT ![wjob[w].idx].sent = @ + 1]
  /\ UNCHANGED << flags, mainVars, jobs, jobsClosed, attempt, err, nrec,
                  wdelay, storeVars, collectVars >>

Next ==
  \/ Resolve
  \/ SpawnWorker
  \/ StartEnqueue
  \/ Enqueue
  \/ CloseJobs
  \/ Collect
  \/ PrintSummary
  \/ \E w \in Workers : WorkerRecv(w)
  \/ \E w \in Workers : WorkerExit(w)
  \/ \E w \in Workers : ChunkExists(w)
  \/ \E w \in Workers : Sleep(w)
  \/ \E w \in Workers : Fetch(w)
  \/ \E w \in Workers : WriteDailyChunk(w)
  \/ \E w \in Workers : SaveChunk(w)
  \/ \E w \in Workers : SendResult(w)

Spec == Init /\ [][Next]_vars

(* The Go scheduler runs every runnable goroutine eventually, and every    *)
(* fetch, sleep and storage call is taken to return. Main is the command   *)
(* from the resolved list on.                                              *)
Main == SpawnWorker \/ StartEnqueue \/ Enqueue \/ CloseJobs \/ Collect \/ PrintSummary

Worker(w) ==
  \/ WorkerRecv(w) \/ WorkerExit(w) \/ ChunkExists(w) \/ Sleep(w) \/ Fetch(w)
  \/ WriteDailyChunk(w) \/ SaveChunk(w) \/ SendResult(w)

FairSpec == Spec /\ WF_vars(Main) /\ \A w \in Workers : WF_vars(Worker(w))

(* ---- properties ---- *)

Count(seq, j) == Cardinality({ k \in 1..Len(seq) : seq[k].idx = j })
Holding(j) == { w \in Workers : wjob[w].idx = j }
Returning(j) == { w \in Workers : wres[w].idx = j }
EnqueuedSoFar ==
  IF mpc \in {"parse", "fatal", "spawn"} THEN 0
  ELSE IF mpc = "enqueue" THEN mi ELSE NumJobs
Spawned == { w \in Workers : w <= concurrency }
FetchFailed(j) == log[j].returned /\ ~log[j].ret.success /\ log[j].writeCalls = 0
Emitted == [k \in 1..(Len(allMetrics) + Len(results)) |->
              IF k <= Len(allMetrics) THEN allMetrics[k] ELSE results[k - Len(allMetrics)]]

(* C1: every enqueued job is taken by exactly one worker and yields exactly *)
(* one result: no job is taken twice or held by two workers, no job has two *)
(* results, every result belongs to an enqueued job and carries its station *)
(* ID, and when the command returns the collector holds exactly one result  *)
(* per job, N in all.                                                       *)
FanOutFanIn ==
  /\ \A j \in JobIds :
       /\ log[j].taken <= 1
       /\ Cardinality(Holding(j)) <= 1
       /\ Count(Emitted, j) + Cardinality(Returning(j)) <= 1
       /\ log[j].sent = Count(Emitted, j)
       /\ (log[j].taken > 0 => j <= EnqueuedSoFar)
  /\ \A k \in 1..Len(Emitted) :
       /\ Emitted[k].idx \in JobIds
       /\ Emitted[k].idx <= EnqueuedSoFar
       /\ Emitted[k].stationID = ToUint16(stationList[Emitted[k].idx])
  /\ (mpc = "done" =>
        /\ Len(allMetrics) = NumJobs
        /\ \A j \in JobIds : Count(allMetrics, j) = 1 /\ log[j].taken = 1)

FanOutFanInWitness ==
  /\ mpc = "done"
  /\ concurrency = 2
  /\ NumJobs = 2
  /\ allMetrics[1].idx = 2

(* C2: once the list is resolved, with at least one worker, and every       *)
(* fetch, sleep and storage call returning, the collector eventually has    *)
(* all N results, the command returns, and every worker leaves its loop.    *)
DispatcherTerminates ==
  (mpc = "spawn" /\ concurrency >= 1) ~> (mpc = "done" /\ \A w \in Spawned : wpc[w] = "exited")

DispatcherTerminatesWitness ==
  /\ mpc = "done"
  /\ concurrency = 2
  /\ NumJobs = 2
  /\ \A w \in Spawned : wpc[w] = "exited"
  /\ failCount = 1
  /\ successCount = 1

(* C3: no job sees more than maxRetries + 1 fetch attempts, and a job with  *)
(* no existing chunk whose attempts all failed made exactly maxRetries + 1  *)
(* attempts and returned success = false.                                   *)
RetryBound ==
  \A j \in JobIds :
    /\ log[j].fetchCalls <= maxRetries + 1
    /\ (log[j].returned /\ log[j].exists = "no" /\ log[j].fetchOks = 0 =>
          /\ log[j].fetchCalls = maxRetries + 1
          /\ ~log[j].ret.success)

(* C4: the retry loop stops at the first attempt without error (no fetch    *)
(* follows it, and unless persistence fails the job succeeds), and when all *)
(* attempts fail the failure result carries the error of the last attempt.  *)
FirstSuccessLastError ==
  \A j \in JobIds :
    /\ log[j].fetchOks <= 1
    /\ (log[j].fetchOks = 1 => log[j].lastFetch = NoError)
    /\ (log[j].returned /\ log[j].fetchOks = 1 /\ log[j].writeCalls = log[j].writeOks
          /\ log[j].saveCalls = log[j].saveOks => log[j].ret.success)
    /\ (log[j].returned /\ log[j].fetchCalls > 0 /\ log[j].fetchOks = 0 =>
          /\ ~log[j].ret.success
          /\ log[j].ret.err = log[j].lastFetch
          /\ log[j].lastFetch # NoError)

FirstSuccessLastErrorWitness ==
  \E j \in JobIds :
    /\ log[j].returned
    /\ log[j].fetchCalls = 2
    /\ log[j].fetchOks = 0
    /\ log[j].ret.err = DecodeError

FirstSuccessWitness ==
  \E j \in JobIds :
    /\ log[j].returned
    /\ log[j].fetchCalls = 2
    /\ log[j].fetchOks = 1
    /\ log[j].ret.success

(* C5: when the store reports an existing chunk for the job's station, the  *)
(* job makes no fetch, no WriteDailyChunk and no SaveChunk call and returns *)
(* success = true with recordCount = 0.                                     *)
IdempotentSkip ==
  \A j \in JobIds :
    log[j].exists = "yes" =>
      /\ log[j].fetchCalls = 0
      /\ log[j].writeCalls = 0
      /\ log[j].saveCalls = 0
      /\ log[j].returned
      /\ log[j].ret.success
      /\ log[j].ret.recordCount = 0
      /\ log[j].ret.err = NoError

IdempotentSkipWitness ==
  /\ mpc = "done"
  /\ \E j \in JobIds : log[j].exists = "yes"
  /\ \E j \in JobIds : log[j].exists = "no" /\ log[j].writeOks = 1

(* C6: within one job WriteDailyChunk is called only after a fetch attempt  *)
(* returned without error, never after retry exhaustion, and SaveChunk is   *)
(* called only after WriteDailyChunk returned without error.                *)
PersistenceOrder ==
  \A j \in JobIds :
    /\ (log[j].writeCalls > 0 => log[j].fetchOks > 0 /\ log[j].lastFetch = NoError)
    /\ (log[j].saveCalls > 0 => log[j].writeOks > 0)
    /\ log[j].saveCalls <= log[j].writeOks

PersistenceOrderWitness ==
  \E j \in JobIds :
    /\ log[j].fetchCalls = 2
    /\ log[j].writeOks = 1
    /\ log[j].saveCalls = 1

(* C7: when the command has returned, a station whose result has            *)
(* success = false has had no successful WriteDailyChunk during its job.    *)
NoOutputForFailed ==
  mpc = "done" =>
    \A k \in 1..Len(allMetrics) :
      ~allMetrics[k].success => log[allMetrics[k].idx].writeOks = 0

(* C8: a persistence error is terminal and not retried: once WriteDailyChunk *)
(* or SaveChunk has returned an error the job has returned success = false  *)
(* with that error, SaveChunk is not called after a failed write, each is   *)
(* called at most once, and a job that has returned makes no further fetch, *)
(* write or save call.                                                      *)
PersistenceErrorTerminal ==
  /\ [](\A j \in JobIds :
          /\ log[j].writeCalls <= 1
          /\ log[j].saveCalls <= 1
          /\ (log[j].writeCalls > log[j].writeOks =>
                /\ log[j].returned
                /\ ~log[j].ret.success
                /\ log[j].ret.err = WriteError
                /\ log[j].saveCalls = 0)
          /\ (log[j].saveCalls > log[j].saveOks =>
                /\ log[j].returned
                /\ ~log[j].ret.success
                /\ log[j].ret.err = SaveError))
  /\ [][\A j \in JobIds :
          log[j].returned =>
            /\ log'[j].fetchCalls = log[j].fetchCalls
            /\ log'[j].writeCalls = log[j].writeCalls
            /\ log'[j].saveCalls = log[j].saveCalls
            /\ log'[j].ret = log[j].ret]_vars

PersistenceErrorWitness ==
  /\ mpc = "done"
  /\ \E j \in JobIds : log[j].writeCalls = 1 /\ log[j].writeOks = 0
  /\ \E j \in JobIds : log[j].saveCalls = 1 /\ log[j].saveOks = 0

(* what the answers to a job's own calls decide *)
OwnSuccess(j) ==
  \/ log[j].exists = "yes"
  \/ /\ log[j].lastFetch = NoError
     /\ log[j].writeCalls = log[j].writeOks
     /\ log[j].saveCalls = log[j].saveOks

OwnRecordCount(j) ==
  IF log[j].exists = "yes" \/ log[j].lastFetch # NoError THEN 0 ELSE log[j].lastN

(* C9: a failing station is isolated. (a) The result of every job is        *)
(* decided by the answers to its own calls alone; (b) a failed job has      *)
(* saved no chunk marker, and markers, the only state another job reads,    *)
(* change only in the step in which a job returns success; (c) the summary  *)
(* counts exactly the failed jobs; (d) with at least one worker every job   *)
(* runs to completion and the command reaches the summary, whichever jobs   *)
(* fail.                                                                    *)
ErrorIsolation ==
  /\ [](\A j \in JobIds :
          log[j].returned =>
            /\ log[j].ret.success = OwnSuccess(j)
            /\ (log[j].ret.success => log[j].ret.recordCount = OwnRecordCount(j))
            /\ (~log[j].ret.success => log[j].saveOks = 0))
  /\ [][markers' # markers =>
          \E j \in JobIds :
            ~log[j].returned /\ log'[j].returned /\ log'[j].ret.success]_vars
  /\ [](mpc = "done" =>
          /\ failCount = Cardinality({ j \in JobIds : ~log[j].ret.success })
          /\ successCount = Cardinality({ j \in JobIds : log[j].ret.success }))
  /\ ((mpc = "spawn" /\ concurrency >= 1) ~>
        (mpc = "done" /\ \A j \in JobIds : log[j].returned))

ErrorIsolationWitness ==
  /\ mpc = "done"
  /\ concurrency = 1
  /\ NumJobs = 2
  /\ ~log[1].ret.success /\ log[1].fetchCalls = 2 /\ log[1].fetchOks = 0
  /\ log[2].ret.success /\ log[2].writeOks = 1 /\ log[2].ret.recordCount = 1
  /\ failCount = 1

DocumentedBackoff ==
  \A w \in Workers :
    wpc[w] = "fetch" /\ attempt[w] >= 1 =>
      /\ wdelay[w] >= (2 ^ (attempt[w] - 1)) * TicksPerSecond
      /\ wdelay[w] < (2 ^ attempt[w]) * TicksPerSecond

RECURSIVE SumSuccessful(_)
SumSuccessful(seq) ==
  IF seq = << >> THEN 0
  ELSE (IF Head(seq).success THEN Head(seq).recordCount ELSE 0)
       + SumSuccessful(Tail(seq))

(* C13: at every point of the collect loop the two counters add up to the   *)
(* number of results collected, successCount is the number of collected     *)
(* results with success = true, and totalRecords is the sum of recordCount  *)
(* over those alone; when the command returns N results have been collected. *)
Aggregation ==
  /\ successCount + failCount = Len(allMetrics)
  /\ successCount = Cardinality({ k \in 1..Len(allMetrics) : allMetrics[k].success })
  /\ totalRecords = SumSuccessful(allMetrics)
  /\ (mpc = "done" => Len(allMetrics) = NumJobs /\ successCount + failCount = NumJobs)

AggregationWitness ==
  /\ mpc = "done"
  /\ NumJobs = 2
  /\ \E k \in 1..2 :
       ~allMetrics[k].success /\ allMetrics[k].recordCount = 1
         /\ allMetrics[k].err = WriteError
  /\ \E k \in 1..2 : allMetrics[k].success /\ allMetrics[k].recordCount = 1
  /\ totalRecords = 1
  /\ successCount = 1
  /\ failCount = 1

(* ---- the structured output, reporting package ---- *)

(* JSONStationResult: the fields of a station result that the summary reads *)
JSONStationResultOf(m) ==
  [StationID |-> m.stationID, Success |-> m.success, Records |-> m.recordCount]

(* mutation of JSONCount: every result is counted as successful *)
JSONCountAll(summary, r) ==
  [summary EXCEPT !.Successful = @ + 1, !.TotalRecords = @ + r.Records]

(* if r.Success { summary.Successful++; summary.TotalRecords += r.Records } *)
(* else { summary.Failed++ }                                                *)
JSONCount(summary, r) ==
  IF r.Success
    THEN [summary EXCEPT !.Successful = @ + 1, !.TotalRecords = @ + r.Records]
    ELSE [summary EXCEPT !.Failed = @ + 1]

RECURSIVE JSONFold(_, _)
JSONFold(rs, summary) ==
  IF rs = << >> THEN summary ELSE JSONFold(Tail(rs), JSONCount(summary, Head(rs)))

PrintJSONResults(rs) ==
  JSONFold(rs, [TotalStations |-> Len(rs), Successful |-> 0, Failed |-> 0,
                TotalRecords |-> 0])

(* C14: when the command prints its summary, PrintJSONResults applied to    *)
(* the collected results reports the same four totals: stations processed,  *)
(* successful, failed and total records.                                    *)
OutputModesAgree ==
  mpc = "done" =>
    LET summary == PrintJSONResults(
                     [k \in 1..Len(allMetrics) |-> JSONStationResultOf(allMetrics[k])])
    IN /\ summary.TotalStations = Len(stationList)
       /\ summary.Successful = successCount
       /\ summary.Failed = failCount
       /\ summary.TotalRecords = totalRecords

OutputModesAgreeWitness ==
  /\ mpc = "done"
  /\ NumJobs = 2
  /\ ~allMetrics[1].success /\ allMetrics[1].err = SaveError
  /\ allMetrics[1].recordCount = 1
  /\ allMetrics[2].success /\ allMetrics[2].recordCount = 0
  /\ totalRecords = 0

(* C15: the collected results are in the same order on every run. With one  *)
(* worker they are collected in the order of the sorted list, so the order  *)
(* is the same for every interleaving and worker count only if it is always *)
(* that one.                                                                *)
DeterministicOrder ==
  mpc = "done" => \A k \in 1..Len(allMetrics) : allMetrics[k].idx = k

TakenSoFar == Cardinality({ j \in DOMAIN log : log[j].taken > 0 })

(* C16: the dispatched list is the sorted one; the jobs channel holds, in   *)
(* list order, exactly the jobs enqueued and not yet taken; the channel is  *)
(* closed only after all N jobs are enqueued; and the k-th job a worker      *)
(* receives is the k-th entry of the list.                                  *)
DispatchOrder ==
  /\ [](/\ (mpc \notin {"parse", "fatal"} => IsSorted(stationList))
        /\ \A k \in 1..Len(jobs) :
             /\ jobs[k].idx = EnqueuedSoFar - Len(jobs) + k
             /\ jobs[k].stationID = ToUint16(stationList[jobs[k].idx])
        /\ TakenSoFar = EnqueuedSoFar - Len(jobs)
        /\ \A j \in JobIds : log[j].taken > 0 => j <= TakenSoFar
        /\ (jobsClosed => EnqueuedSoFar = NumJobs))
  /\ [][\A j \in DOMAIN log :
          log'[j].taken > log[j].taken => j = TakenSoFar + 1]_vars

DispatchOrderWitness ==
  /\ input = << "5", ",", "2" >>
  /\ stationList = << 2, 5 >>
  /\ jobsClosed
  /\ wjob[2].idx = 1 /\ wjob[2].stationID = 2
  /\ wjob[1].idx = 2 /\ wjob[1].stationID = 5

(* C17: each channel holds at most N items, the dispatcher can always       *)
(* enqueue the next job, and a worker holding a result can always send it.  *)
NoProducerBlocks ==
  /\ Len(jobs) <= NumJobs
  /\ Len(results) <= NumJobs
  /\ (mpc = "enqueue" /\ mi < NumJobs => ENABLED Enqueue)
  /\ \A w \in Workers : wpc[w] = "send" => ENABLED SendResult(w)

NoProducerBlocksWitness ==
  /\ NumJobs = 2
  /\ Len(results) = 1
  /\ \E w \in Workers : wpc[w] = "send"
  /\ mpc = "enqueue"
  /\ Len(jobs) = 0

(* ---- the resolver, as the specification words it ---- *)
Tokens(in) ==
  LET parts == Split(in, ",") IN [k \in 1..Len(parts) |-> TrimSpace(parts[k])]

IsInteger(s) == Atoi(s).ok

ValidToken(t) ==
  IF Contains(t, "-")
    THEN LET b == Split(t, "-") IN
           /\ Len(b) = 2
           /\ IsInteger(TrimSpace(b[1]))
           /\ IsInteger(TrimSpace(b[2]))
    ELSE IsInteger(t)

Expansion(t) ==
  IF Contains(t, "-")
    THEN LET b == Split(t, "-")
             low == Atoi(TrimSpace(b[1])).val
             high == Atoi(TrimSpace(b[2])).val
         IN [i \in 1..Cardinality(low..high) |-> low + i - 1]
    ELSE << Atoi(t).val >>

RECURSIVE Concat(_)
Concat(seqs) == IF seqs = << >> THEN << >> ELSE Head(seqs) \o Concat(Tail(seqs))

(* C18: when every token is an integer or a low-high range, the call        *)
(* returns no error and the concatenation, in token order, of [k] for a     *)
(* bare k and of low, low+1, ..., high for a range, nothing for a reversed   *)
(* range, duplicates kept; "2,5-7,10" gives [2,5,6,7,10] and "5-1" gives   *)
(* the empty list without error.                                            *)
TokenExpansion ==
  mpc = "returned" =>
    /\ ((\A k \in DOMAIN Tokens(input) : ValidToken(Tokens(input)[k])) =>
          /\ perr = NoParseError
          /\ stationList =
               Concat([k \in DOMAIN Tokens(input) |-> Expansion(Tokens(input)[k])]))
    /\ (input = << "2", ",", "5", "-", "7", ",", "1", "0" >> =>
          perr = NoParseError /\ stationList = << 2, 5, 6, 7, 10 >>)
    /\ (input = << "5", "-", "1" >> => perr = NoParseError /\ stationList = << >>)
    /\ (input = << "1", ",", "1", "-", "3" >> => stationList = << 1, 1, 2, 3 >>)

TokenExpansionWitness ==
  /\ mpc = "returned"
  /\ input = << "2", ",", "5", "-", "7", ",", "1", "0" >>
  /\ stationList = << 2, 5, 6, 7, 10 >>
  /\ perr = NoParseError

(* C19: when some token is not an integer, or contains '-' without being    *)
(* two integers around one '-', the call returns an error and the nil list, *)
(* whatever valid tokens precede it; "abc", "1-2-3", "1-abc" and "abc-5"   *)
(* fail with the station, format, end and start errors.                     *)
ParseErrorNilList ==
  mpc = "returned" =>
    /\ ((\E k \in DOMAIN Tokens(input) : ~ValidToken(Tokens(input)[k])) =>
          perr \in ParseErrors /\ stationList = << >>)
    /\ (perr # NoParseError => stationList = << >>)
    /\ (input = << "a", "b", "c" >> => perr = "invalid station ID")
    /\ (input = << "1", "-", "2", "-", "3" >> => perr = "invalid range format")
    /\ (input = << "1", "-", "a", "b", "c" >> => perr = "invalid range end")
    /\ (input = << "a", "b", "c", "-", "5" >> => perr = "invalid range start")

ParseErrorNilListWitness ==
  /\ mpc = "returned"
  /\ input = << "1", ",", "3", "-", "a" >>
  /\ perr = "invalid range end"
  /\ stationList = << >>

(* C20: a -stations value that is empty, fails to parse or resolves to no   *)
(* station ends the command at once: nothing has been dispatched when it    *)
(* aborts, no step follows the abort, and the command gets past the         *)
(* resolver only with a value that parses to at least one station.          *)
FailFast ==
  /\ [](mpc = "fatal" => Idle /\ markers = {} /\ stationList = << >>)
  /\ [](mpc \notin {"parse", "fatal"} =>
          /\ parseStationList(input).err = NoParseError
          /\ Len(stationList) > 0)
  /\ [][mpc = "parse"
          /\ (parseStationList(input).err # NoParseError
                \/ parseStationList(input).stations = << >>)
        => mpc' = "fatal"]_vars
  /\ [][mpc # "fatal"]_vars

FailFastWitness ==
  /\ mpc = "fatal"
  /\ input = << "5", "-", "2" >>
  /\ perr = NoParseError
  /\ concurrency = 2

Occurrences(seq, v) == Cardinality({ i \in 1..Len(seq) : seq[i] = v })

(* C21: after sortStations the slice is sorted ascending, has the length it *)
(* had and holds every value as often as before.                            *)
SortIsSortedPermutation ==
  mpc = "returned" /\ ret.fn = "sortStations" =>
    /\ IsSorted(ret.stations)
    /\ Len(ret.stations) = Len(arg.stations)
    /\ \A v \in SortValues :
         Occurrences(ret.stations, v) = Occurrences(arg.stations, v)

SortIsSortedPermutationWitness ==
  /\ mpc = "returned"
  /\ arg.fn = "sortStations"
  /\ arg.stations = << 5, 2, 5, -1 >>
  /\ ret.stations = << -1, 2, 5, 5 >>

MentionsPhrase(text) ==
  \E k \in 1..Len(RetryablePhrases) :
    \E i \in 1..Len(text) :
      /\ i + Len(RetryablePhrases[k]) - 1 <= Len(text)
      /\ SubSeq(text, i, i + Len(RetryablePhrases[k]) - 1) = RetryablePhrases[k]

(* C22: a nil error classifies to nil; any other error classifies to a      *)
(* value carrying that error and status, with ShouldRetry false for a 4xx   *)
(* status other than 429 whatever the text, true for 429 and for 500 and    *)
(* above, and for every other status true exactly when the text contains    *)
(* one of the six retryable phrases.                                        *)
ClassifyRules ==
  mpc = "returned" /\ ret.fn = "classify" =>
    IF arg.err.isNil THEN ret.isNil
    ELSE /\ ~ret.isNil
         /\ ret.Err = arg.err
         /\ ret.StatusCode = arg.statusCode
         /\ ret.ShouldRetry =
              IF arg.statusCode \in 400..499 /\ arg.statusCode # 429 THEN FALSE
              ELSE IF arg.statusCode = 429 \/ arg.statusCode >= 500 THEN TRUE
              ELSE MentionsPhrase(arg.err.text)

ClassifyRulesWitness ==
  /\ mpc = "returned"
  /\ arg.fn = "classify"
  /\ arg.statusCode = 404
  /\ arg.err.text = << "E", "O", "F" >>
  /\ ~ret.isNil
  /\ ~ret.ShouldRetry

(* ---- dates and conversion ---- *)
Timestamps(records) == [i \in 1..Len(records) |-> records[i].Timestamp]

DateRuns(s) ==
  [wellFormed |-> Len(s) = 10 /\ s[5] = "-" /\ s[8] = "-",
   digits |-> Len(s) = 10 /\ \A i \in {1, 2, 3, 4, 6, 7, 9, 10} : IsDigit(s[i])]

(* C25: the fast date path agrees with the reference parser: a string the   *)
(* fast parser accepts is accepted by time.Parse and gets the same day      *)
(* number, a string of a year in 1985..2100 that time.Parse accepts is      *)
(* accepted by the fast parser, and ConvertDailyToRecordsFast returns the   *)
(* timestamps ConvertDailyToRecords returns for the same records.           *)
FastPathEquivalence ==
  /\ (mpc = "returned" /\ ret.fn = "parseDateYYYYMMDD" /\ Len(arg.s) = 10) =>
       LET ref == TimeParse(arg.s) IN
         /\ ret.date.ok =>
              /\ ref.ok
              /\ daysSinceEpoch(ret.date.year, ret.date.month, ret.date.day)
                   = TimeToDaysSinceEpoch(DateOf(ref.year, ref.month, ref.day))
         /\ (ref.ok /\ ref.year >= MinYear /\ ref.year <= MaxYear) => ret.date.ok
  /\ (mpc = "returned" /\ ret.fn = "ConvertDailyToRecordsFast") =>
       Timestamps(ret.records)
         = Timestamps(ConvertDailyToRecords(arg.records, arg.stationID))

(* C26: parseDateYYYYMMDD returns ok=false and zero components when the     *)
(* length is not 10, a separator is not '-', or the year, month or day is   *)
(* out of range; when it returns ok=true the components are the decimal     *)
(* values of the three digit runs of the string.                            *)
ParseDateContract ==
  (mpc = "returned" /\ ret.fn = "parseDateYYYYMMDD") =>
    LET s == arg.s
        runs == DateRuns(s)
        year == DecimalValue(SubSeq(s, 1, 4), 0)
        month == DecimalValue(SubSeq(s, 6, 7), 0)
        day == DecimalValue(SubSeq(s, 9, 10), 0)
    IN /\ ~runs.wellFormed => ret.date = NoDate
       /\ (runs.wellFormed /\ runs.digits
             /\ (year < 1985 \/ year > 2100 \/ month < 1 \/ month > 12
                   \/ day < 1 \/ day > 31)) => ret.date = NoDate
       /\ ret.date.ok =>
            /\ runs.digits
            /\ ret.date.year = year
            /\ ret.date.month = month
            /\ ret.date.day = day

ExpectedQC(rec) ==
  LET flagged(mv) == ~mv.isNil /\ mv.Qc \notin { << " " >>, << >> } IN
    (IF flagged(rec.DayAirTmpAvg) THEN 1 ELSE 0)
      + (IF flagged(rec.DayAsceEto) THEN 2 ELSE 0)

(* C27: in every record a converter returns, bit 0x01 of QCFlags is set     *)
(* exactly when the air temperature is present with a quality code that is  *)
(* neither a single blank nor empty, bit 0x02 likewise for ETo, and no      *)
(* other bit is set; ConvertDailyToRecords, ConvertMinimalDailyToRecords    *)
(* and the streaming conversion compute the same flags.                     *)
QCFlagRule ==
  /\ (mpc = "returned" /\ ret.fn \in { "ConvertDailyToRecords",
                                        "ConvertMinimalDailyToRecords" }) =>
       LET accepted(rec) == IF ret.fn = "ConvertDailyToRecords"
                              THEN TimeParse(rec.Date).ok
                              ELSE FastTimestamp(rec.Date).ok
           kept == SelectSeq(arg.records, accepted)
       IN /\ Len(ret.records) = Len(kept)
          /\ \A k \in 1..Len(kept) :
               /\ ret.records[k].QCFlags = ExpectedQC(kept[k])
               /\ ret.records[k].QCFlags \in 0..3
  /\ (mpc = "returned" /\ ret.fn = "streamingToDailyRecord"
        /\ FastTimestamp(arg.sdr.Date).ok) =>
       /\ ret.record.QCFlags = ExpectedQC(arg.sdr)
       /\ ret.record.QCFlags \in 0..3
       /\ ret.record.QCFlags
            = ConvertMinimalDailyToRecords(<< arg.sdr >>, arg.stationID)[1].QCFlags

QCFlagRuleWitness ==
  /\ mpc = "returned"
  /\ ret.fn = "ConvertMinimalDailyToRecords"
  /\ Len(ret.records) = 2
  /\ ret.records[1].QCFlags = 1
  /\ ret.records[2].QCFlags = 2
  /\ ~arg.records[1].DayAsceEto.isNil
  /\ arg.records[1].DayAsceEto.Qc = << " " >>

(* ---- the streaming fetch ---- *)

(* C23: a request or transport error, a status other than 200 and a body    *)
(* that does not decode (malformed JSON, no Providers key) each return an   *)
(* error with no records; with a status other than 200 the decoder is never *)
(* entered.                                                                 *)
FetchFailureModes ==
  (mpc = "returned" /\ ret.fn = "FetchDailyDataStreaming") =>
    LET resp == arg.resp IN
      /\ (resp.request # "ok" \/ ~resp.transportOK) =>
           /\ ret.err \notin { NoError, DecodeError }
           /\ ret.records = << >>
           /\ ~ret.decoded
      /\ (resp.transportOK /\ resp.status # HTTPStatusOK) =>
           /\ ret.err = StatusError(resp.status)
           /\ ret.records = << >>
           /\ ~ret.decoded
      /\ (resp.transportOK /\ resp.status = HTTPStatusOK /\ resp.body.json # "ok") =>
           /\ ret.err = DecodeError
           /\ ret.records = << >>
      /\ ret.err # NoError => ret.records = << >>

FetchFailureModesWitness ==
  /\ mpc = "returned"
  /\ ret.fn = "FetchDailyDataStreaming"
  /\ arg.resp.transportOK
  /\ arg.resp.status # HTTPStatusOK
  /\ arg.resp.body.json = "ok"
  /\ ProviderRecords(arg.resp.body.providers) # << >>
  /\ ret.err.kind = "status"

(* C24: a successful streaming decode returns, in the order of the          *)
(* response, exactly the records whose date parses (fast path or fallback)  *)
(* to a timestamp above 0; the others are dropped without an error, so a    *)
(* station that sends 3 valid records and 1 with an unparsable date has 3   *)
(* records fetched.                                                         *)
DecodeKeepsValid ==
  (mpc = "returned" /\ ret.fn = "FetchDailyDataStreaming"
     /\ arg.resp.transportOK /\ arg.resp.status = HTTPStatusOK
     /\ arg.resp.body.json = "ok") =>
    LET valid(sdr) == /\ FastTimestamp(sdr.Date).ok
                      /\ FastTimestamp(sdr.Date).ts > 0
        kept == SelectSeq(ProviderRecords(arg.resp.body.providers), valid)
    IN /\ ret.err = NoError
       /\ Len(ret.records) = Len(kept)
       /\ \A k \in 1..Len(kept) :
            /\ ret.records[k].Timestamp = FastTimestamp(kept[k].Date).ts
            /\ ret.records[k].StationID = arg.stationID
       /\ ret.metrics.RecordsFetched = Len(kept)

DecodeKeepsValidWitness ==
  /\ mpc = "returned"
  /\ ret.fn = "FetchDailyDataStreaming"
  /\ ret.err = NoError
  /\ Len(ProviderRecords(arg.resp.body.providers)) = 4
  /\ \E i \in 1..4 :
       ~FastTimestamp(ProviderRecords(arg.resp.body.providers)[i].Date).ok
  /\ Len(ret.records) = 3
  /\ ret.metrics.RecordsFetched = 3

(* C28: after a successful fetch the metrics hold the number of records     *)
(* returned and the number of body bytes read, which is not 0 when the body *)
(* is not empty.                                                            *)
MetricsPopulated ==
  (mpc = "returned" /\ ret.fn = "FetchDailyDataStreaming" /\ ret.err = NoError) =>
    /\ ret.metrics.RecordsFetched = Len(ret.records)
    /\ arg.resp.body.bytes > 0 =>
         ret.metrics.BytesTransferred \in 1..arg.resp.body.bytes

(* ---- the flags' whole range ---- *)

(* C29: whatever the retries flag, a station with no existing chunk is      *)
(* reported and collected with success = true only if one of its fetch      *)
(* attempts returned without error.                                         *)
SuccessMeansFetched ==
  /\ \A j \in JobIds :
       (log[j].returned /\ log[j].exists = "no" /\ log[j].ret.success) =>
         log[j].fetchOks >= 1
  /\ \A k \in 1..Len(allMetrics) :
       (allMetrics[k].success /\ log[allMetrics[k].idx].exists = "no") =>
         log[allMetrics[k].idx].fetchOks >= 1

(* C30: whatever the concurrency flag, once the list is resolved the        *)
(* collector eventually has all N results and the command returns.          *)
CollectorReturns == (mpc = "spawn") ~> (mpc = "done")

(* ---- duplicates, later runs and wide identifiers ---- *)

(* C31: in one run WriteDailyChunk is called at most once for a station and *)
(* year, also when the list names the station twice and two workers hold    *)
(* the two jobs.                                                            *)
OneWritePerChunk ==
  \A j1 \in DOMAIN log, j2 \in DOMAIN log :
    (ToUint16(stationList[j1]) = ToUint16(stationList[j2])) =>
      IF j1 = j2 THEN log[j1].writeCalls <= 1
      ELSE log[j1].writeCalls + log[j2].writeCalls <= 1

(* C32: when a job of a run that is not dry returns success = true after a  *)
(* fetch without error for a station that had no chunk, the marker of the   *)
(* station and year is saved, so that a later run skips the station; also   *)
(* when the fetch returned no records.                                      *)
MarkerAfterSuccess ==
  \A j \in DOMAIN log :
    (~dryRun /\ log[j].returned /\ log[j].exists = "no"
       /\ log[j].fetchOks >= 1 /\ log[j].ret.success) =>
      ToUint16(stationList[j]) \in markers

(* C33: every job and every result carries the resolved identifier it was   *)
(* made from, and two different resolved identifiers never share a job      *)
(* station, identifiers above 65535 included.                               *)
IdentityPreserved ==
  /\ \A i \in 1..Len(jobs) : jobs[i].stationID = stationList[jobs[i].idx]
  /\ \A k \in 1..Len(allMetrics) :
       allMetrics[k].stationID = stationList[allMetrics[k].idx]
  /\ \A i1 \in 1..Len(jobs), i2 \in 1..Len(jobs) :
       stationList[jobs[i1].idx] # stationList[jobs[i2].idx] =>
         jobs[i1].stationID # jobs[i2].stationID

(* C34: parseStationList returns no negative identifier: a token that       *)
(* begins with '-', such as "-5", is rejected with an error, and every      *)
(* identifier of a list returned without error is at least 0.               *)
NoNegativeStation ==
  mpc = "returned" =>
    /\ (\E k \in 1..Len(Tokens(input)) :
          Tokens(input)[k] # << >> /\ Head(Tokens(input)[k]) = "-") =>
         perr # NoParseError
    /\ perr = NoParseError => \A i \in 1..Len(stationList) : stationList[i] >= 0

NoNegativeStationWitness ==
  /\ mpc = "returned"
  /\ input = << "+", "5", ",", "-", "5" >>
  /\ perr = "invalid range start"
  /\ stationList = << >>

(* C35: parseDateYYYYMMDD accepts only strings whose eight characters       *)
(* around the separators are decimal digits and that name a day of the      *)
(* calendar: never a ':' in a numeric position, never a day past the end of *)
(* its month.                                                               *)
OnlyRealDates ==
  (mpc = "returned" /\ ret.fn = "parseDateYYYYMMDD" /\ ret.date.ok) =>
    /\ \A i \in {1, 2, 3, 4, 6, 7, 9, 10} : IsDigit(arg.s[i])
    /\ ret.date.day <= DaysIn(ret.date.month, ret.date.year)
    /\ TimeParse(arg.s).ok

(* C36: for the same decoded records and station the streaming conversion   *)
(* (streamingToDailyRecord and the Timestamp > 0 filter) returns the list   *)
(* ConvertMinimalDailyToRecords returns, a record dated 1985-01-01          *)
(* included.                                                                *)
StreamingEqualsMinimal ==
  (mpc = "returned" /\ ret.fn = "FetchDailyDataStreaming" /\ ret.err = NoError) =>
    ret.records = ConvertMinimalDailyToRecords(
                    ProviderRecords(arg.resp.body.providers),
                    ToUint16(arg.stationID))

(* ---- the batch fetch ---- *)
InFlight == { k \in DOMAIN batch.gpc : batch.gpc[k] = "fetching" }

(* C37: FetchMultipleStations never has more fetches in flight than         *)
(* workerPool, or than 4 when workerPool is 0 or less; a slot of the        *)
(* semaphore is acquired once for each goroutine and released once, after   *)
(* its fetch has returned.                                                  *)
PoolBound ==
  batch.fn = "FetchMultipleStations" =>
    /\ Cardinality(InFlight) <= (IF batch.asked <= 0 THEN 4 ELSE batch.asked)
    /\ batch.semaphore <= (IF batch.asked <= 0 THEN 4 ELSE batch.asked)
    /\ batch.semaphore
         = Cardinality({ k \in DOMAIN batch.gpc : batch.gpc[k] \in {"fetching", "stored"} })
    /\ \A k \in DOMAIN batch.gpc :
         /\ batch.acquired[k] = (IF batch.gpc[k] = "unborn" THEN 0 ELSE 1)
         /\ batch.released[k] = (IF batch.gpc[k] \in {"released", "done"} THEN 1 ELSE 0)

PoolBoundWitness ==
  /\ batch.fn = "FetchMultipleStations"
  /\ batch.asked = 0
  /\ Cardinality(InFlight) = DefaultPool
  /\ batch.i = DefaultPool + 1
  /\ batch.i <= Len(batch.stationIDs)
  /\ ~ENABLED Dispatch

(* C38: FetchMultipleStations returns only when every fetch has finished;   *)
(* the slice it returns has the length and the order of stationIDs, entry i *)
(* holding station i and the outcome of its fetch, whatever the order the   *)
(* fetches ended in; no slot is written twice.                              *)
BatchResultsInOrder ==
  batch.fn = "FetchMultipleStations" =>
    /\ \A k \in DOMAIN batch.writes : batch.writes[k] <= 1
    /\ batch.pc = "returned" =>
         /\ \A k \in DOMAIN batch.gpc : batch.gpc[k] = "done"
         /\ Len(batch.returned) = Len(batch.stationIDs)
         /\ \A k \in 1..Len(batch.stationIDs) :
              /\ batch.returned[k].StationID = batch.stationIDs[k]
              /\ batch.returned[k].n = batch.fetched[k].n
              /\ batch.returned[k].err = batch.fetched[k].err
              /\ batch.writes[k] = 1

BatchResultsInOrderWitness ==
  /\ batch.fn = "FetchMultipleStations"
  /\ batch.pc = "returned"
  /\ batch.stationIDs = << 5, 2 >>
  /\ batch.returned[1].err = TransportError
  /\ batch.returned[2].n = MaxRecords

(* ---- the monitor ---- *)

(* C39: PrintReport always completes while other goroutines record: as long *)
(* as it has not returned some goroutine can take a step, so PrintReport    *)
(* and a recorder never wait on each other for ever.                        *)
PrintReportCompletes ==
  (pm.fn = "PerformanceMonitor" /\ pm.report # "returned") => ENABLED MonitorNext

(* ---- the profiler ---- *)

(* C40: StartCPUProfile returns nil only when not running and then sets     *)
(* running; while running it returns an error and changes nothing;          *)
(* StopCPUProfile returns nil only when running and clears it, and returns  *)
(* an error when not running; so the calls that return nil alternate,       *)
(* Start first.                                                             *)
StartStopAlternate ==
  /\ [](profiler.fn = "Profiler" =>
          /\ \A k \in 1..Len(profiler.history) :
               profiler.history[k] = (IF k % 2 = 1 THEN "start" ELSE "stop")
          /\ profiler.isRunning = (Len(profiler.history) % 2 = 1)
          /\ (profiler.last.op = "start" /\ profiler.last.err = "nil") =>
               ~profiler.last.was /\ profiler.isRunning
          /\ (profiler.last.op = "start" /\ profiler.last.was) =>
               profiler.last.err = "profiling already running" /\ profiler.isRunning
          /\ (profiler.last.op = "stop" /\ profiler.last.err = "nil") =>
               profiler.last.was /\ ~profiler.isRunning
          /\ (profiler.last.op = "stop" /\ ~profiler.last.was) =>
               profiler.last.err = "profiling not running" /\ ~profiler.isRunning)
  /\ [][(profiler.fn = "Profiler" /\ profiler'.last.err # "nil") =>
          /\ profiler'.isRunning = profiler.isRunning
          /\ profiler'.cpuFile = profiler.cpuFile
          /\ profiler'.history = profiler.history]_vars

StartStopAlternateWitness ==
  /\ profiler.fn = "Profiler"
  /\ profiler.history = << "start", "stop", "start" >>
  /\ profiler.last = [op |-> "start", was |-> TRUE, err |-> "profiling already running"]
  /\ profiler.calls = 5

====
